---- MODULE Spec2Model ----
(***************************************************************************)
(* Model of the retrieval-and-orchestration engine of puj-nlp/cev-rag:     *)
(* the bounded tool-calling loop (generate_answer_with_tools), the         *)
(* question handler around it (process_question, add_message), citation    *)
(* extraction and formatting, vector search with dimension handling, and   *)
(* context assembly.                                                       *)
(*                                                                         *)
(* A text is a sequence of string fragments; a fragment is an atomic       *)
(* lexeme (a word, a citation marker, a heading, an exception's text).     *)
(***************************************************************************)
EXTENDS Integers, Sequences, FiniteSets, TLC

VARIABLES
    impl,               \* which generate_answer_with_tools runs: "tools" | "legacy"
    pc,                 \* position of the run
    turn,               \* loop index of `for turn in range(max_turns)`
    chat,               \* chat_session.messages of the chat being asked
    messages,           \* the message list sent to the completion provider
    pending,            \* tool calls of the current turn not yet processed
    collected_contexts, \* collected_contexts
    calls,              \* every completion call made: tools offered?, messages sent
    retrievals,         \* number of get_rag_context calls made
    ninv,               \* tool invocations returned by the provider so far (ids)
    result,             \* the dict generate_answer_with_tools returned
    log,                \* what was printed for operators
    http,               \* what the controller answered
    cite_pc,            \* citation functions: "input" | "extracted" | "formatted"
    cite_contexts,      \* the collected contexts given to them
    cite_added,         \* documents and contexts added to the input so far
    cite_answer,        \* the raw answer given to _format_response_with_sources
    cite_out,           \* what the function returned
    s_impl,             \* which search runs: "adapter" (MilvusVectorDatabase) | "legacy"
    s_pc,               \* position of the search client
    store,              \* the collections of the vector store, by name
    _collection,        \* the collection resolved ("" for None)
    _expected_dimension, \* the adapter's attribute (0: not set)
    query_vec,          \* the embedding of the current request
    nsearch,            \* requests started
    queries,            \* every similarity query issued to the store
    printed,            \* diagnostics printed by the search functions
    s_out,              \* how the last request ended
    ctx_pc,             \* context assembly: "input" | "built" | "generated"
    ctx_documents,      \* the documents given to build_context
    rag_context,        \* the RAGContext it returned
    llm_context,        \* the context generate_answer received
    cfg_store,          \* the collections the legacy process finds in the store
    config_collection,  \* config.ABSTRACT_COLLECTION
    config_dimension,   \* config.EMBEDDING_DIMENSION
    v_pc,               \* position of the thread running verify_milvus_collections
    v_attempt,          \* its attempt (0-based)
    v_candidates,       \* collection_candidates still to examine in this attempt
    h_pc,               \* position of each add_message handler
    h_collection,       \* the collection each handler resolved ("" before)
    h_len,              \* len(query_vec) of each handler (0 before)
    h_saw,              \* the (name, dimension) each handler printed at line 357
    API_KEYS,           \* the environment variable, split at its commas
    valid_api_keys,     \* api_key_manager.valid_api_keys
    auth_enabled,       \* api_key_manager.auth_enabled
    a_pc,               \* the API: "import" | "idle" | "routing" | "off"
    a_request,          \* the request being served
    a_response,         \* the response to the last request
    a_nreq,             \* requests received
    e_pc,               \* embedding input: "input" | "sent" | "off"
    e_text,             \* the text given to generate_embedding / get_embedding
    e_sent,             \* the input of client.embeddings.create
    err_pc,             \* error mapping: "start" | "in_try" | "raised" | "answered" | "off"
    err_impl,           \* "clean" (controllers.py) or "legacy" (main.py)
    err_failure,        \* what went wrong: "empty" | "connection" | "dimension" | "other"
    err_exc,            \* the exception on its way to add_message
    err_http,           \* the HTTPException add_message raises
    rows,               \* the rows of table messages for the chat, in message_order
    run_pc,             \* per run: "start" | "asked" | "saving" | "failed" | "done" | "raised" | "off"
    run_session         \* per run: the messages of the ChatSession object it holds

orchVars == <<impl, pc, turn, chat, messages, pending, collected_contexts,
              calls, retrievals, ninv, result, log, http>>

citeVars == <<cite_pc, cite_contexts, cite_added, cite_answer, cite_out>>

searchVars == <<s_impl, s_pc, store, _collection, _expected_dimension, query_vec,
                nsearch, queries, printed, s_out>>

ctxVars == <<ctx_pc, ctx_documents, rag_context, llm_context>>

cfgVars == <<cfg_store, config_collection, config_dimension, v_pc, v_attempt,
             v_candidates, h_pc, h_collection, h_len, h_saw>>

\* what the actions of one part leave alone
authVars == <<API_KEYS, valid_api_keys, auth_enabled, a_pc, a_request, a_response,
              a_nreq>>

embedVars == <<e_pc, e_text, e_sent>>

errVars == <<err_pc, err_impl, err_failure, err_exc, err_http>>

runVars == <<rows, run_pc, run_session>>

notOrch == <<citeVars, searchVars, ctxVars, cfgVars, authVars, embedVars, errVars, runVars>>
notCite == <<orchVars, searchVars, ctxVars, cfgVars, authVars, embedVars, errVars, runVars>>
notSearch == <<orchVars, citeVars, ctxVars, cfgVars, authVars, embedVars, errVars, runVars>>
notCtx == <<orchVars, citeVars, searchVars, cfgVars, authVars, embedVars, errVars, runVars>>
notCfg == <<orchVars, citeVars, searchVars, ctxVars, authVars, embedVars, errVars, runVars>>
notAuth == <<orchVars, citeVars, searchVars, ctxVars, cfgVars, embedVars, errVars, runVars>>
notEmbed == <<orchVars, citeVars, searchVars, ctxVars, cfgVars, authVars, errVars, runVars>>

notErr == <<orchVars, citeVars, searchVars, ctxVars, cfgVars, authVars, embedVars, runVars>>

notRun == <<orchVars, citeVars, searchVars, ctxVars, cfgVars, authVars, embedVars, errVars>>

vars == <<orchVars, citeVars, searchVars, ctxVars, cfgVars, authVars, embedVars, errVars, runVars>>

-----------------------------------------------------------------------------
(* Bounds of the model *)

\* tool invocations the provider returns over one run
MaxInvocations == 4

\* messages stored in the chat before the question
MaxStored == 2

\* documents and contexts added to the input of reference extraction
MaxAdded == 3

\* fragments of a raw answer given to the formatter
MaxAnswerLen == 3

\* search requests made of one client
MaxSearches == 2

\* documents given to build_context
MaxCtxDocs == 4

(* Program constants *)

max_turns == 3

HistoryWindow == 5

UseCaseWindow == 10

MaxReferences == 8

DefaultSources == 3

\* config.EMBEDDING_DIMENSION of the legacy service
EMBEDDING_DIMENSION == 1536

\* what expected_dimension answers when no schema was read
DefaultDimension == 1536

\* embedding_dimension of the OpenAI configuration
LargeDimension == 3072

\* references build_context makes
ContextReferences == 3

-----------------------------------------------------------------------------
(* Sequence helpers *)

\* s[-n:] of Python
LastN(s, n) == IF Len(s) > n THEN SubSeq(s, Len(s) - n + 1, Len(s)) ELSE s

\* s[:n] of Python
FirstN(s, n) == IF Len(s) > n THEN SubSeq(s, 1, n) ELSE s

Range(s) == {s[i] : i \in DOMAIN s}

Min(a, b) == IF a < b THEN a ELSE b

RECURSIVE SetMax(_)
SetMax(S) == LET x == CHOOSE y \in S : TRUE
             IN  IF S = {x} THEN x
                 ELSE LET m == SetMax(S \ {x}) IN IF x > m THEN x ELSE m

RECURSIVE Flatten(_)
Flatten(ss) == IF ss = <<>> THEN <<>> ELSE Head(ss) \o Flatten(Tail(ss))

-----------------------------------------------------------------------------
(* Citation extraction: openai_tools.py, _extract_references_from_contexts  *)

\* A page as the store returns it: a number or a string. [int, s] is the
\* int (or the str) whose decimal text is s.
PageInt(s) == [int |-> TRUE, s |-> s]
PageStr(s) == [int |-> FALSE, s |-> s]

\* str(page)
PyStr(page) == page.s

\* truth value of a page in `page or ""`: 0 and "" are falsy
PageTruthy(page) == page.s # "" /\ ~(page.int /\ page.s = "0")

\* one entry of documents_metadata in a collected context
DocMeta(title, page, link) ==
    [title |-> title, page |-> page, source_id |-> "", link |-> link]

\* unique_id = f"{title}_{page}"
UniqueId(title, page) == title \o "_" \o page

\* url of a document: metadata link/url, else original_fields link/url, else None ("")
DocUrl(doc) == doc.link

MakeReference(doc, ref_number) ==
    [number    |-> ref_number,
     title     |-> doc.title,
     source_id |-> doc.source_id,
     page      |-> PyStr(doc.page),
     year      |-> "2022",
     publisher |-> "CEV",
     isbn      |-> "978-958-53874-3-0",
     url       |-> DocUrl(doc)]

\* mutant: the `continue` on an identifier already seen is missing
RECURSIVE ExtractDocs_NoDedup(_, _)
ExtractDocs_NoDedup(documents, acc) ==
    IF documents = <<>> THEN acc
    ELSE LET doc  == Head(documents)
             next == [references      |-> Append(acc.references,
                                             MakeReference(doc, acc.ref_number)),
                      seen_references |-> acc.seen_references,
                      ref_number      |-> acc.ref_number + 1]
         IN  IF next.ref_number > MaxReferences
             THEN next
             ELSE ExtractDocs_NoDedup(Tail(documents), next)

\* the body of `for doc in documents`, with its `continue` and its `break`
RECURSIVE ExtractDocs(_, _)
ExtractDocs(documents, acc) ==
    IF documents = <<>> THEN acc
    ELSE LET doc       == Head(documents)
             unique_id == UniqueId(doc.title, PyStr(doc.page))
         IN  IF unique_id \in acc.seen_references
             THEN ExtractDocs(Tail(documents), acc)
             ELSE LET next == [references      |-> Append(acc.references,
                                                      MakeReference(doc, acc.ref_number)),
                               seen_references |-> acc.seen_references \cup {unique_id},
                               ref_number      |-> acc.ref_number + 1]
                  IN  IF next.ref_number > MaxReferences
                      THEN next
                      ELSE ExtractDocs(Tail(documents), next)

\* the body of `for context_data in collected_contexts`, with its `break`
RECURSIVE ExtractContexts(_, _)
ExtractContexts(contexts, acc) ==
    IF contexts = <<>> THEN acc
    ELSE LET next == ExtractDocs(Head(contexts).documents, acc)
         IN  IF next.ref_number > MaxReferences
             THEN next
             ELSE ExtractContexts(Tail(contexts), next)

_extract_references_from_contexts(contexts) ==
    ExtractContexts(contexts,
        [references |-> <<>>, seen_references |-> {}, ref_number |-> 1]).references

-----------------------------------------------------------------------------
(* Sources section: openai_tools.py, _format_response_with_sources          *)

SourcesHeading == "\n\nSources\n"
FuentesHeading == "\n\nFuentes\n"
ReferencesHeading == "\n\nReferences\n"

\* fragments in which the substring "Sources" / "Fuentes" occurs
SourcesFragments == {"Sources", SourcesHeading}
FuentesFragments == {"Fuentes", FuentesHeading}

\* citation markers \[(\d+)\] and the integer each carries
MarkerNumber ==
    [m \in {"[0]", "[1]", "[2]", "[3]", "[5]", "[9]"} |->
        CASE m = "[0]" -> 0 [] m = "[1]" -> 1 [] m = "[2]" -> 2
          [] m = "[3]" -> 3 [] m = "[5]" -> 5 [] m = "[9]" -> 9]

Contains(content, fragments) == \E i \in DOMAIN content : content[i] \in fragments

\* re.sub(heading + '.*$', '', content, flags=re.DOTALL): everything from the
\* first occurrence of the heading is removed
StripFrom(content, heading) ==
    IF \E i \in DOMAIN content : content[i] = heading
    THEN LET first == CHOOSE i \in DOMAIN content :
                          /\ content[i] = heading
                          /\ \A j \in 1..(i - 1) : content[j] # heading
         IN  SubSeq(content, 1, first - 1)
    ELSE content

StripModelSection(content) ==
    IF Contains(content, SourcesFragments) THEN StripFrom(content, SourcesHeading)
    ELSE IF Contains(content, FuentesFragments) THEN StripFrom(content, FuentesHeading)
    ELSE content

\* re.findall(r'\[(\d+)\]', content) as a set of integers
CitedNumbers(content) ==
    {MarkerNumber[content[i]] : i \in {j \in DOMAIN content : content[j] \in DOMAIN MarkerNumber}}

\* mutant: the number of distinct citations instead of the highest one
MaxSources_CountsCitations(content, references) ==
    LET cited_numbers == CitedNumbers(content)
    IN  IF cited_numbers # {}
        THEN Min(Cardinality(cited_numbers), Len(references))
        ELSE Min(DefaultSources, Len(references))

MaxSources(content, references) ==
    LET cited_numbers == CitedNumbers(content)
    IN  IF cited_numbers # {}
        THEN Min(SetMax(cited_numbers), Len(references))
        ELSE Min(DefaultSources, Len(references))

\* one line of the Sources section
SourceLine(i, ref) ==
    "\n" \o ToString(i) \o ". " \o ref.title \o ". (" \o ref.year \o "). "
         \o ref.publisher \o "."
         \o (IF ref.isbn # "" THEN " ISBN " \o ref.isbn \o "." ELSE "")
         \o (IF ref.page # "" THEN ", Page " \o ref.page \o "." ELSE "")
         \o (IF ref.url # "" THEN " [Ver documento](" \o ref.url \o ")" ELSE "")

SourcesSection(references, max_sources) ==
    <<"\n\nSources">> \o
    [i \in 1..max_sources |-> SourceLine(i, references[i])]

\* mutant: every extracted reference is returned, also those not rendered
_format_response_with_sources_AllReferences(content, contexts) ==
    IF contexts = <<>> THEN [content |-> content, references |-> <<>>]
    ELSE LET references == _extract_references_from_contexts(contexts)
         IN  IF references = <<>> THEN [content |-> content, references |-> <<>>]
             ELSE LET body        == StripModelSection(content)
                      max_sources == MaxSources(body, references)
                  IN  [content    |-> body \o SourcesSection(references, max_sources),
                       references |-> references]

_format_response_with_sources(content, contexts) ==
    IF contexts = <<>> THEN [content |-> content, references |-> <<>>]
    ELSE LET references == _extract_references_from_contexts(contexts)
         IN  IF references = <<>> THEN [content |-> content, references |-> <<>>]
             ELSE LET body        == StripModelSection(content)
                      max_sources == MaxSources(body, references)
                  IN  [content    |-> body \o SourcesSection(references, max_sources),
                       references |-> FirstN(references, max_sources)]


-----------------------------------------------------------------------------
(* Retrieval for one sub-question: get_rag_context_for_tools / get_rag_context *)

\* texts of the exceptions the providers and the vector store raise
CompletionErrors == {"Request timed out.", "Connection error."}
RetrievalErrors == {"<MilvusException: (code=2, message=Fail connecting to server)>"}
JsonErrors == {"Expecting value: line 1 column 1 (char 0)"}
SaveErrors == {"database is locked"}

ExceptionTexts == CompletionErrors \cup RetrievalErrors

\* a hit of the vector store: metadata title/page/link and the content
Hit(title, page, link, content) ==
    [title |-> title, page |-> page, link |-> link, content |-> content]

HitA == Hit("Informe Final", PageInt("22"), "https://cev.co/informe", "texto a")
HitB == Hit("", PageInt("0"), "", "texto b")

\* what the environment can answer to one retrieval
RetrievalOutcomes ==
    {[error |-> e, documents |-> <<>>] : e \in RetrievalErrors} \cup
    {[error |-> "", documents |-> d] : d \in {<<>>, <<HitA, HitB>>}}

\* title = metadata title or original title or "Untitled document";
\* page = metadata page or original page or ""
HitMetadata(hit) ==
    DocMeta(IF hit.title # "" THEN hit.title ELSE "Untitled document",
            IF PageTruthy(hit.page) THEN hit.page ELSE PageStr(""),
            hit.link)

\* formatted_piece of one document
FormattedPiece(hit) ==
    LET meta == HitMetadata(hit)
    IN  <<"Source: " \o meta.title \o "\n">>
        \o (IF meta.link # "" THEN <<"URL: " \o meta.link \o "\n">> ELSE <<>>)
        \o (IF PageTruthy(meta.page)
            THEN <<"Page number: " \o PyStr(meta.page) \o "\n">> ELSE <<>>)
        \o <<"Text: " \o hit.content>>

\* "\n\n---\n\n".join(pieces)
RECURSIVE JoinPieces(_)
JoinPieces(pieces) ==
    IF pieces = <<>> THEN <<>>
    ELSE IF Len(pieces) = 1 THEN Head(pieces)
    ELSE Head(pieces) \o <<"\n\n---\n\n">> \o JoinPieces(Tail(pieces))

NoDocumentsContext ==
    <<"No se encontraron documentos relevantes en la base de datos para esta consulta.">>

CouldNotRetrieve == "Could not retrieve relevant information due to: "

\* openai_tools.py
get_rag_context_for_tools(outcome) ==
    IF outcome.error # ""
    THEN [context |-> <<CouldNotRetrieve, outcome.error>>, documents |-> <<>>]
    ELSE IF outcome.documents = <<>>
    THEN [context |-> NoDocumentsContext, documents |-> <<>>]
    ELSE [context   |-> JoinPieces([i \in DOMAIN outcome.documents |->
                                        FormattedPiece(outcome.documents[i])]),
          documents |-> [i \in DOMAIN outcome.documents |->
                                        HitMetadata(outcome.documents[i])]]

\* chat_with_tools.py
get_rag_context(outcome) ==
    IF outcome.error # ""
    THEN [context |-> <<CouldNotRetrieve, outcome.error>>, documents |-> <<>>]
    ELSE [context   |-> JoinPieces([i \in DOMAIN outcome.documents |->
                                        FormattedPiece(outcome.documents[i])]),
          documents |-> [i \in DOMAIN outcome.documents |->
                                        HitMetadata(outcome.documents[i])]]

RagResult(outcome) ==
    IF impl = "tools" THEN get_rag_context_for_tools(outcome) ELSE get_rag_context(outcome)


-----------------------------------------------------------------------------
(* The tool-calling loop: generate_answer_with_tools, and the handler       *)
(* around it: QuestionAnsweringUseCase.process_question (use_tools=True)    *)
(* and QuestionController.add_message                                       *)

SystemPrompt == "You are 'Window to Truth', ..."
Question == "What is the Paz Grande?"
ToolName == "get_relevant_information"

\* mutant: a message does not keep the id of the tool call it answers
Msg_DropsCallId(role, content, tool_calls, tool_call_id) ==
    [role |-> role, content |-> content, tool_calls |-> tool_calls,
     tool_call_id |-> 0]

Msg(role, content, tool_calls, tool_call_id) ==
    [role |-> role, content |-> content, tool_calls |-> tool_calls,
     tool_call_id |-> tool_call_id]

ChatMsg(content, is_bot, references) ==
    [content |-> content, is_bot |-> is_bot, references |-> references]

\* a tool invocation of a response. arguments: whether json.loads accepts
\* them, and the value under "question" ("" when the key is missing)
ToolCall(id, name, valid, question) ==
    [id |-> id, name |-> name, arguments |-> [valid |-> valid, question |-> question]]

\* the invocations the provider may return with id `id`
ToolCallsWithId(id) ==
    { ToolCall(id, ToolName, TRUE, "sub-question " \o ToString(id)),
      ToolCall(id, ToolName, TRUE, ""),
      ToolCall(id, ToolName, FALSE, ""),
      ToolCall(id, "other_function", TRUE, "sub-question " \o ToString(id)) }

\* the tool_calls lists of one response: n invocations, ids from+1 .. from+n
RECURSIVE ToolCallLists(_, _)
ToolCallLists(from, n) ==
    IF n = 0 THEN {<<>>}
    ELSE {<<c>> \o rest : c \in ToolCallsWithId(from + 1),
                          rest \in ToolCallLists(from + 1, n - 1)}

\* contents of a response without tool invocations
AnswerContents ==
    { <<"La Paz Grande es un concepto.">>,
      <<"La Paz Grande", "[1]", "[5]", SourcesHeading, "1. Informe">> }

\* a chat of n stored messages, user and bot messages alternating
StoredChat(n) ==
    [i \in 1..n |-> ChatMsg(<<"message " \o ToString(i)>>, i % 2 = 0, <<>>)]

\* the messages stored in the chat before the question
StoredChats == {StoredChat(0), StoredChat(MaxStored)}

NoResult ==
    [returned |-> FALSE, content |-> <<>>, is_bot |-> FALSE, error |-> FALSE,
     has_contexts |-> FALSE, contexts |-> <<>>,
     has_references |-> FALSE, references |-> <<>>]

NoHttp == [status |-> 0, detail |-> <<>>]

ErrorInLoop == "An error occurred while processing your question: "
ErrorInFinal == "An error occurred while generating the final response: "

\* the dict returned from an `except Exception as e` of the loop or of the final call
ErrorResult(prefix, e) ==
    [returned |-> TRUE, content |-> <<prefix, e>>, is_bot |-> TRUE, error |-> TRUE,
     has_contexts |-> (impl = "tools"),
     contexts |-> IF impl = "tools" THEN collected_contexts ELSE <<>>,
     has_references |-> FALSE, references |-> <<>>]

\* mutant: the answer is returned as the provider gave it
AnswerResult_Unformatted(content) ==
    [returned |-> TRUE, content |-> content, is_bot |-> TRUE,
     error |-> FALSE, has_contexts |-> TRUE, contexts |-> collected_contexts,
     has_references |-> FALSE, references |-> <<>>]

\* mutant: the answer is returned without the contexts collected
AnswerResult_DropsContexts(content) ==
    LET formatted == _format_response_with_sources(content, collected_contexts)
    IN  [returned |-> TRUE, content |-> IF impl = "tools" THEN formatted.content ELSE content,
         is_bot |-> TRUE, error |-> FALSE, has_contexts |-> TRUE, contexts |-> <<>>,
         has_references |-> TRUE, references |-> formatted.references]

\* the dict returned with an answer
AnswerResult(content) ==
    IF impl = "tools"
    THEN LET formatted == _format_response_with_sources(content, collected_contexts)
         IN  [returned |-> TRUE, content |-> formatted.content, is_bot |-> TRUE,
              error |-> FALSE, has_contexts |-> TRUE, contexts |-> collected_contexts,
              has_references |-> TRUE, references |-> formatted.references]
    ELSE [returned |-> TRUE, content |-> content, is_bot |-> TRUE,
          error |-> FALSE, has_contexts |-> TRUE, contexts |-> collected_contexts,
          has_references |-> FALSE, references |-> <<>>]

\* the message list at INIT: system prompt, last 5 of chat_history, the question
SeedMessages(chat_history) ==
    <<Msg("system", <<SystemPrompt>>, <<>>, 0)>>
    \o [i \in DOMAIN LastN(chat_history, HistoryWindow) |->
           Msg(IF LastN(chat_history, HistoryWindow)[i].is_bot THEN "assistant" ELSE "user",
               LastN(chat_history, HistoryWindow)[i].content, <<>>, 0)]
    \o <<Msg("user", <<Question>>, <<>>, 0)>>

OrchInit ==
    /\ impl \in {"tools", "legacy"}
    /\ pc = "start"
    /\ turn = 0
    /\ chat \in StoredChats
    /\ messages = <<>>
    /\ pending = <<>>
    /\ collected_contexts = <<>>
    /\ calls = <<>>
    /\ retrievals = 0
    /\ ninv = 0
    /\ result = NoResult
    /\ log = {}
    /\ http = NoHttp

\* process_question up to the call of generate_answer_with_tools (the user
\* message is appended, chat_history is the last 10 messages), then the
\* seeding of the message list. chat_with_tools.py is given the stored history.
Start ==
    /\ pc = "start"
    /\ LET asked == Append(chat, ChatMsg(<<Question>>, FALSE, <<>>))
       IN  IF impl = "tools"
           THEN /\ chat' = asked
                /\ messages' = SeedMessages(LastN(asked, UseCaseWindow))
           ELSE /\ chat' = chat
                /\ messages' = SeedMessages(chat)
    /\ pc' = "awaiting"
    /\ UNCHANGED <<impl, turn, pending, collected_contexts, calls, retrievals,
                   ninv, result, log, http>>
    /\ UNCHANGED notOrch

\* a completion call of the loop raises
CallModelFails ==
    /\ pc = "awaiting"
    /\ \E e \in CompletionErrors :
         /\ calls' = Append(calls, [tools |-> TRUE, messages |-> messages, failed |-> TRUE,
                                    content |-> <<>>, tool_calls |-> <<>>])
         /\ log' = log \cup {e}
         /\ result' = ErrorResult(ErrorInLoop, e)
    /\ pc' = "returned"
    /\ UNCHANGED <<impl, turn, chat, messages, pending, collected_contexts,
                   retrievals, ninv, http>>
    /\ UNCHANGED notOrch

\* a completion call of the loop answers without tool invocations
CallModelAnswers ==
    /\ pc = "awaiting"
    /\ \E content \in AnswerContents :
         /\ calls' = Append(calls, [tools |-> TRUE, messages |-> messages, failed |-> FALSE,
                                    content |-> content, tool_calls |-> <<>>])
         /\ messages' = Append(messages, Msg("assistant", content, <<>>, 0))
         /\ result' = AnswerResult(content)
    /\ pc' = "returned"
    /\ UNCHANGED <<impl, turn, chat, pending, collected_contexts, retrievals,
                   ninv, log, http>>
    /\ UNCHANGED notOrch

\* a completion call of the loop answers with tool invocations
CallModelRequestsTools ==
    /\ pc = "awaiting"
    /\ \E n \in 1..(MaxInvocations - ninv) :
         \E tool_calls \in ToolCallLists(ninv, n) :
           /\ calls' = Append(calls, [tools |-> TRUE, messages |-> messages,
                                      failed |-> FALSE, content |-> <<>>,
                                      tool_calls |-> tool_calls])
           /\ messages' = Append(messages, Msg("assistant", <<>>, tool_calls, 0))
           /\ pending' = tool_calls
           /\ ninv' = ninv + n
    /\ pc' = "tools"
    /\ UNCHANGED <<impl, turn, chat, collected_contexts, retrievals, result, log, http>>
    /\ UNCHANGED notOrch

\* mutant: the loop does not count its turns
AfterToolCall_KeepsTurn(left) ==
    /\ turn' = turn
    /\ pc' = IF left # <<>> THEN "tools" ELSE "awaiting"

\* mutant: a `break` where the loop has `continue`: the rest of the turn's
\* tool calls is dropped
AfterToolCall_BreaksTurn(left) ==
    /\ turn' = turn + 1
    /\ pc' = IF turn + 1 < max_turns THEN "awaiting" ELSE "final"

\* where the loop goes once `left` remains of the turn's tool calls
AfterToolCall(left) ==
    IF left # <<>> THEN /\ pc' = "tools"
                        /\ turn' = turn
    ELSE /\ turn' = turn + 1
         /\ pc' = IF turn + 1 < max_turns THEN "awaiting" ELSE "final"

\* one iteration of `for tool_call in tool_calls`
ProcessToolCall ==
    /\ pc = "tools"
    /\ pending # <<>>
    /\ LET tool_call == Head(pending)
       IN  IF tool_call.name # ToolName
           THEN /\ AfterToolCall(Tail(pending))
                /\ pending' = Tail(pending)
                /\ UNCHANGED <<messages, collected_contexts, retrievals, result, log>>
           ELSE IF ~tool_call.arguments.valid
           THEN \E e \in JsonErrors :
                  /\ log' = log \cup {e}
                  /\ result' = ErrorResult(ErrorInLoop, e)
                  /\ pc' = "returned"
                  /\ pending' = <<>>
                  /\ UNCHANGED <<turn, messages, collected_contexts, retrievals>>
           ELSE IF tool_call.arguments.question = ""
           THEN /\ AfterToolCall(Tail(pending))
                /\ pending' = Tail(pending)
                /\ UNCHANGED <<messages, collected_contexts, retrievals, result, log>>
           ELSE \E outcome \in RetrievalOutcomes :
                  LET rag_result == RagResult(outcome)
                  IN  /\ retrievals' = retrievals + 1
                      /\ log' = IF outcome.error # "" THEN log \cup {outcome.error} ELSE log
                      /\ collected_contexts' =
                             Append(collected_contexts,
                                    [question  |-> tool_call.arguments.question,
                                     context   |-> rag_result.context,
                                     documents |-> rag_result.documents])
                      /\ messages' = Append(messages,
                                        Msg("tool", rag_result.context, <<>>, tool_call.id))
                      /\ AfterToolCall(Tail(pending))
                      /\ pending' = Tail(pending)
                      /\ UNCHANGED result
    /\ UNCHANGED <<impl, chat, calls, ninv, http>>
    /\ UNCHANGED notOrch

\* the completion call after the loop, without tools
FinalCall ==
    /\ pc = "final"
    /\ \/ \E e \in CompletionErrors :
            /\ calls' = Append(calls, [tools |-> FALSE, messages |-> messages,
                                       failed |-> TRUE, content |-> <<>>,
                                       tool_calls |-> <<>>])
            /\ log' = log \cup {e}
            /\ result' = ErrorResult(ErrorInFinal, e)
       \/ \E content \in AnswerContents :
            /\ calls' = Append(calls, [tools |-> FALSE, messages |-> messages,
                                       failed |-> FALSE, content |-> content,
                                       tool_calls |-> <<>>])
            /\ result' = AnswerResult(content)
            /\ log' = log
    /\ pc' = "returned"
    /\ UNCHANGED <<impl, turn, chat, messages, pending, collected_contexts,
                   retrievals, ninv, http>>
    /\ UNCHANGED notOrch

Apology == "I apologize, but I couldn't process your question. Please try again."

\* the words add_message looks for in str(e).lower()
ErrorWords(e) ==
    CASE e = "database is locked" -> {}
      [] OTHER -> {}

\* QuestionController.add_message: the detail of the HTTP 500 answer
ErrorDetail(e) ==
    IF "empty" \in ErrorWords(e) THEN
        "The database contains no documents. Please ensure data has been correctly loaded."
    ELSE IF "connect" \in ErrorWords(e) THEN
        "Could not connect to the database. Please verify the connection."
    ELSE IF "dimension" \in ErrorWords(e) THEN
        "There is a problem with the vector dimensions. Please verify the configuration."
    ELSE "Could not process the question. Please try again."

\* process_question after generate_answer_with_tools returned: the bot message
\* is appended and the chat saved; add_message answers with the message, or,
\* when the save raises, with the classified error
Finish ==
    /\ pc = "returned"
    /\ impl = "tools"
    /\ LET bot_message == ChatMsg(result.content, TRUE, result.references)
       IN  \/ /\ chat' = Append(chat, bot_message)
              /\ http' = [status |-> 200, detail |-> bot_message.content]
              /\ log' = log
           \/ \E e \in SaveErrors :
                /\ chat' = Append(Append(chat, bot_message), ChatMsg(<<Apology>>, TRUE, <<>>))
                /\ log' = log \cup {e}
                /\ http' = [status |-> 500, detail |-> <<ErrorDetail(e)>>]
    /\ pc' = "done"
    /\ UNCHANGED <<impl, turn, messages, pending, collected_contexts, calls,
                   retrievals, ninv, result>>
    /\ UNCHANGED notOrch

\* no question is being processed
OrchIdle ==
    /\ impl = "tools"
    /\ pc = "off"
    /\ turn = 0
    /\ chat = <<>>
    /\ messages = <<>>
    /\ pending = <<>>
    /\ collected_contexts = <<>>
    /\ calls = <<>>
    /\ retrievals = 0
    /\ ninv = 0
    /\ result = NoResult
    /\ log = {}
    /\ http = NoHttp


-----------------------------------------------------------------------------
(* The citation functions on their own inputs                               *)

Context(question, documents) ==
    [question |-> question, context |-> <<"...">>, documents |-> documents]

\* filler documents: the i-th has title "filler" and page i
Filler(i) == DocMeta("filler", PageInt(ToString(i)), "")

\* two contexts already collected, with 5 and 2 distinct documents
BulkContexts ==
    << Context("q1", [i \in 1..5 |-> Filler(i)]),
       Context("q2", [i \in 1..2 |-> Filler(i + 5)]) >>

\* the documents added one at a time: two whose unique_id collide, the same
\* page as a number and as a string, a document without title and page, a
\* repetition of a filler, and documents with a link
AddedDocuments ==
    { DocMeta("a", PageStr("b_c"), ""),
      DocMeta("a_b", PageStr("c"), ""),
      DocMeta("a", PageInt("5"), "https://cev.co/a"),
      DocMeta("a", PageStr("5"), ""),
      DocMeta("Untitled document", PageStr(""), ""),
      Filler(1),
      DocMeta("z", PageInt("9"), "https://cev.co/z") }

NoOutput == [content |-> <<>>, references |-> <<>>]

RefsInit ==
    /\ cite_pc = "input"
    /\ cite_contexts \in {<<>>, BulkContexts}
    /\ cite_added = 0
    /\ cite_answer = <<>>
    /\ cite_out = NoOutput

\* one more tool invocation collected a context, with no document yet
AddContext ==
    /\ cite_pc = "input"
    /\ cite_added < MaxAdded
    /\ cite_contexts' = Append(cite_contexts, Context("q", <<>>))
    /\ cite_added' = cite_added + 1
    /\ UNCHANGED <<cite_pc, cite_answer, cite_out>>
    /\ UNCHANGED notCite

\* the last context holds one more document
AddDocument ==
    /\ cite_pc = "input"
    /\ cite_added < MaxAdded
    /\ cite_contexts # <<>>
    /\ \E doc \in AddedDocuments :
         cite_contexts' =
            [cite_contexts EXCEPT ![Len(cite_contexts)].documents = Append(@, doc)]
    /\ cite_added' = cite_added + 1
    /\ UNCHANGED <<cite_pc, cite_answer, cite_out>>
    /\ UNCHANGED notCite

ExtractReferences ==
    /\ cite_pc = "input"
    /\ cite_out' = [content |-> <<>>,
                    references |-> _extract_references_from_contexts(cite_contexts)]
    /\ cite_pc' = "extracted"
    /\ UNCHANGED <<cite_contexts, cite_added, cite_answer>>
    /\ UNCHANGED notCite

\* contexts with k distinct documents, k = 0, 1, 2, 3, 4, 7
FormatContexts ==
    { <<>>,
      << Context("q1", <<>>) >>,
      << Context("q1", <<Filler(1)>>) >>,
      << Context("q1", <<Filler(1)>>), Context("q2", <<Filler(2), Filler(1)>>) >>,
      << Context("q1", [i \in 1..3 |-> Filler(i)]) >>,
      << Context("q1", [i \in 1..4 |-> Filler(i)]) >>,
      BulkContexts }

\* the fragments a raw answer is made of
AnswerFragments ==
    {"texto", "[1]", "[2]", "[5]", "[0]", "Sources", SourcesHeading, FuentesHeading,
     ReferencesHeading}

FormatInit ==
    /\ cite_pc = "input"
    /\ cite_contexts \in FormatContexts
    /\ cite_added = 0
    /\ cite_answer = <<>>
    /\ cite_out = NoOutput

\* the model's answer holds one more fragment
AppendFragment ==
    /\ cite_pc = "input"
    /\ Len(cite_answer) < MaxAnswerLen
    /\ \E f \in AnswerFragments : cite_answer' = Append(cite_answer, f)
    /\ UNCHANGED <<cite_pc, cite_contexts, cite_added, cite_out>>
    /\ UNCHANGED notCite

FormatResponse ==
    /\ cite_pc = "input"
    /\ cite_out' = _format_response_with_sources(cite_answer, cite_contexts)
    /\ cite_pc' = "formatted"
    /\ UNCHANGED <<cite_contexts, cite_added, cite_answer>>
    /\ UNCHANGED notCite

CiteIdle ==
    /\ cite_pc = "off"
    /\ cite_contexts = <<>>
    /\ cite_added = 0
    /\ cite_answer = <<>>
    /\ cite_out = NoOutput

-----------------------------------------------------------------------------
(* Vector search: MilvusVectorDatabase and rag_service.py                   *)

ABSTRACT_COLLECTION == "source_abstract"
QualifiedName == "colombia_data_qaps.source_abstract"
DefaultName == "default_source_abstract"
LastAttemptName == "colombia_data_qaps/source_abstract"

CollectionNames == {ABSTRACT_COLLECTION, QualifiedName, DefaultName, LastAttemptName}

\* A collection of the store. dim is the dimension of the schema's field
\* named "embedding", 0 when the schema has no such field.
Absent == [exists |-> FALSE, dim |-> 0, num_entities |-> 0]
Stored(dim, n) == [exists |-> TRUE, dim |-> dim, num_entities |-> n]

Shapes ==
    {Absent, Stored(0, 1)} \cup
    {Stored(d, n) : d \in {EMBEDDING_DIMENSION, LargeDimension}, n \in {0, 1}}

\* the stores a client may face
Stores ==
    {st \in [CollectionNames -> Shapes] :
        /\ st[DefaultName] \in {Absent, Stored(EMBEDDING_DIMENSION, 1)}
        /\ st[LastAttemptName] \in {Absent, Stored(LargeDimension, 1)}}

\* utility.list_collections(): the existing names, in an order the store chooses
Listings ==
    LET existing == {n \in CollectionNames : store[n].exists}
    IN  {l \in [1..Cardinality(existing) -> existing] :
            \A i, j \in DOMAIN l : i # j => l[i] # l[j]}

\* lengths of the vectors the embedding provider returns
EmbeddingLengths == {256, EMBEDDING_DIMENSION, LargeDimension}

\* an embedding of n entries (no entry is zero)
Embedding(n) == [i \in 1..n |-> i]

\* [0.0] * n
Zeros(n) == [i \in 1..n |-> 0]

NoOutcome == [status |-> "none", error |-> ""]
Documents == [status |-> "documents", error |-> ""]
Raised(e) == [status |-> "error", error |-> e]

MismatchError == "Embedding dimension mismatch"
EmptyError == "The collection is empty"
NoValidCollection == "No valid collection found"
NoCollectionAccess == "Could not access any collection"
FieldError == "<MilvusException: (code=1, message=failed to get field schema by name)>"
EmbeddingError == "Error generating embedding"

Query(by, name, vector) ==
    [by |-> by, req |-> nsearch, collection |-> name, vector |-> vector]

Diagnostic(event, from, to) ==
    [req |-> nsearch, event |-> event, from |-> from, to |-> to]

\* what collection.search does with a query
StoreSearch(name) ==
    IF store[name].dim = 0 THEN Raised(FieldError) ELSE Documents

\* candidates = [self._collection_name] + self._alternative_names
AdapterCandidates ==
    <<ABSTRACT_COLLECTION, ABSTRACT_COLLECTION, QualifiedName, QualifiedName, DefaultName>>

\* the loop of _get_collection over the candidates left, `expected` being
\* self._expected_dimension so far
RECURSIVE GetCollectionFrom(_, _)
GetCollectionFrom(candidates, expected) ==
    IF candidates = <<>>
    THEN [found |-> FALSE, name |-> "", expected |-> expected]
    ELSE LET candidate == Head(candidates)
             c         == store[candidate]
             seen      == IF c.exists /\ c.dim # 0 THEN c.dim ELSE expected
         IN  IF c.exists /\ c.num_entities > 0
             THEN [found |-> TRUE, name |-> candidate, expected |-> seen]
             ELSE GetCollectionFrom(Tail(candidates), seen)

_get_collection == GetCollectionFrom(AdapterCandidates, 0)

\* MilvusVectorDatabase.__init__ / _initialize_connection
Connect ==
    /\ s_impl = "adapter"
    /\ s_pc = "start"
    /\ LET r == _get_collection
       IN  /\ _expected_dimension' = r.expected
           /\ _collection' = r.name
           /\ s_pc' = IF r.found THEN "ready" ELSE "failed"
           /\ s_out' = IF r.found THEN NoOutcome ELSE Raised(NoValidCollection)
    /\ UNCHANGED <<s_impl, store, query_vec, nsearch, queries, printed>>
    /\ UNCHANGED notSearch

\* the property expected_dimension
expected_dimension ==
    IF _expected_dimension = 0 THEN DefaultDimension ELSE _expected_dimension

\* OpenAIEmbeddingService.generate_embedding: a vector, or the provider's error
generate_embedding ==
    /\ s_impl = "adapter"
    /\ s_pc \in {"ready", "searched"}
    /\ nsearch < MaxSearches
    /\ nsearch' = nsearch + 1
    /\ \/ \E n \in EmbeddingLengths :
            /\ query_vec' = Embedding(n)
            /\ s_pc' = "embedded"
            /\ s_out' = NoOutcome
       \/ /\ query_vec' = <<>>
          /\ s_pc' = "searched"
          /\ s_out' = Raised(EmbeddingError)
    /\ UNCHANGED <<s_impl, store, _collection, _expected_dimension, queries, printed>>
    /\ UNCHANGED notSearch

\* MilvusVectorDatabase.search_similar_documents
search_similar_documents ==
    /\ s_impl = "adapter"
    /\ s_pc = "embedded"
    /\ s_pc' = "searched"
    /\ IF _collection = ""
       THEN /\ s_out' = Raised("Collection not initialized")
            /\ UNCHANGED <<queries, printed>>
       ELSE IF Len(query_vec) # expected_dimension
       THEN /\ s_out' = Raised(MismatchError)
            /\ UNCHANGED <<queries, printed>>
       ELSE /\ queries' = Append(queries,
                             Query("search_similar_documents", _collection, query_vec))
            /\ printed' = Append(printed,
                             Diagnostic("searching", Len(query_vec), Len(query_vec)))
            /\ s_out' = StoreSearch(_collection)
    /\ UNCHANGED <<s_impl, store, _collection, _expected_dimension, query_vec, nsearch>>
    /\ UNCHANGED notSearch

\* rag_service.py at import: diagnose_milvus_collection
diagnose_milvus_collection ==
    /\ s_impl = "legacy"
    /\ s_pc = "start"
    /\ s_pc' = "ready"
    /\ LET c == store[ABSTRACT_COLLECTION]
       IN  IF c.exists /\ c.num_entities > 0
           THEN queries' = Append(queries,
                              Query("diagnose_milvus_collection", ABSTRACT_COLLECTION,
                                    Embedding(EMBEDDING_DIMENSION)))
           ELSE UNCHANGED queries
    /\ UNCHANGED <<s_impl, store, _collection, _expected_dimension, query_vec, nsearch,
                   printed, s_out>>
    /\ UNCHANGED notSearch

\* rag_service.get_embedding: a vector, or zeros when the provider fails
get_embedding ==
    /\ s_impl = "legacy"
    /\ s_pc \in {"ready", "searched"}
    /\ nsearch < MaxSearches
    /\ nsearch' = nsearch + 1
    /\ \/ \E n \in EmbeddingLengths : query_vec' = Embedding(n)
       \/ query_vec' = Zeros(EMBEDDING_DIMENSION)
    /\ s_pc' = "embedded"
    /\ s_out' = NoOutcome
    /\ _collection' = ""
    /\ UNCHANGED <<s_impl, store, _expected_dimension, queries, printed>>
    /\ UNCHANGED notSearch

\* the loop `for collection in collections` of get_abstract_collection
RECURSIVE InsertFound(_, _)
InsertFound(collections, collection_candidates) ==
    IF collections = <<>> THEN collection_candidates
    ELSE LET collection == Head(collections)
         IN  InsertFound(Tail(collections),
                 IF collection \in Range(collection_candidates)
                    \/ collection = ABSTRACT_COLLECTION
                 THEN <<collection>> \o collection_candidates
                 ELSE collection_candidates)

\* the first name of the candidates that Collection(name=...) opens
RECURSIVE FirstAccessible(_)
FirstAccessible(names) ==
    IF names = <<>> THEN ""
    ELSE IF store[Head(names)].exists THEN Head(names)
    ELSE FirstAccessible(Tail(names))

\* rag_service.get_abstract_collection
get_abstract_collection ==
    /\ s_impl = "legacy"
    /\ s_pc = "embedded"
    /\ \E collections \in Listings :
         LET collection_candidates ==
                 InsertFound(collections, <<ABSTRACT_COLLECTION, QualifiedName>>)
             name == FirstAccessible(collection_candidates \o <<LastAttemptName>>)
         IN  /\ _collection' = name
             /\ s_pc' = IF name = "" THEN "searched" ELSE "resolved"
             /\ s_out' = IF name = "" THEN Raised(NoCollectionAccess) ELSE NoOutcome
    /\ UNCHANGED <<s_impl, store, _expected_dimension, query_vec, nsearch, queries, printed>>
    /\ UNCHANGED notSearch

\* mutant: a vector that is too long is left as it is
ReconcileVector_PadsOnly(vec, collection_vector_dim) ==
    IF Len(vec) > collection_vector_dim
    THEN vec
    ELSE vec \o Zeros(collection_vector_dim - Len(vec))

\* query_vec[:dim], or query_vec + [0.0] * (dim - len(query_vec))
ReconcileVector(vec, collection_vector_dim) ==
    IF Len(vec) > collection_vector_dim
    THEN SubSeq(vec, 1, collection_vector_dim)
    ELSE vec \o Zeros(collection_vector_dim - Len(vec))

\* rag_service.get_documents_from_query
get_documents_from_query ==
    /\ s_impl = "legacy"
    /\ s_pc = "resolved"
    /\ s_pc' = "searched"
    /\ LET c == store[_collection]
           collection_vector_dim == c.dim
           mismatch == collection_vector_dim # 0 /\ Len(query_vec) # collection_vector_dim
           vec == IF mismatch THEN ReconcileVector(query_vec, collection_vector_dim)
                              ELSE query_vec
       IN  IF c.num_entities = 0
           THEN /\ s_out' = Raised(EmptyError)
                /\ UNCHANGED <<queries, printed>>
           ELSE /\ printed' =
                     IF mismatch
                     THEN printed \o
                          <<Diagnostic("dimension mismatch", Len(query_vec),
                                       collection_vector_dim),
                            Diagnostic(IF Len(query_vec) > collection_vector_dim
                                       THEN "truncated" ELSE "expanded",
                                       Len(query_vec), collection_vector_dim)>>
                     ELSE printed
                /\ queries' = Append(queries,
                                 Query("get_documents_from_query", _collection, vec))
                /\ s_out' = StoreSearch(_collection)
    /\ UNCHANGED <<s_impl, store, _collection, _expected_dimension, query_vec, nsearch>>
    /\ UNCHANGED notSearch

\* the store beside the client: the entities of a collection are deleted
EntitiesDeleted ==
    /\ s_pc \in {"ready", "embedded", "resolved", "searched"}
    /\ \E name \in CollectionNames :
         /\ store[name].exists
         /\ store[name].num_entities > 0
         /\ store' = [store EXCEPT ![name].num_entities = 0]
    /\ UNCHANGED <<s_impl, s_pc, _collection, _expected_dimension, query_vec,
                   nsearch, queries, printed, s_out>>
    /\ UNCHANGED notSearch

SearchInit ==
    /\ s_impl \in {"adapter", "legacy"}
    /\ s_pc = "start"
    /\ store \in Stores
    /\ _collection = ""
    /\ _expected_dimension = 0
    /\ query_vec = <<>>
    /\ nsearch = 0
    /\ queries = <<>>
    /\ printed = <<>>
    /\ s_out = NoOutcome

\* the stores of the runs in which entities are deleted: every collection
\* that exists starts with data
LiveStores ==
    {st \in Stores :
        /\ st[DefaultName] = Absent
        /\ st[LastAttemptName] = Absent
        /\ st[ABSTRACT_COLLECTION] \in {Absent, Stored(EMBEDDING_DIMENSION, 1)}
        /\ st[QualifiedName] \in {Absent, Stored(LargeDimension, 1)}}

LiveInit ==
    /\ s_impl \in {"adapter", "legacy"}
    /\ s_pc = "start"
    /\ store \in LiveStores
    /\ _collection = ""
    /\ _expected_dimension = 0
    /\ query_vec = <<>>
    /\ nsearch = 0
    /\ queries = <<>>
    /\ printed = <<>>
    /\ s_out = NoOutcome

SearchIdle ==
    /\ s_impl = "adapter"
    /\ s_pc = "off"
    /\ store = [n \in CollectionNames |-> Absent]
    /\ _collection = ""
    /\ _expected_dimension = 0
    /\ query_vec = <<>>
    /\ nsearch = 0
    /\ queries = <<>>
    /\ printed = <<>>
    /\ s_out = NoOutcome

-----------------------------------------------------------------------------
(* Context assembly: DefaultRAGContextBuilder.build_context                 *)

\* the value of metadata.get(key) when the metadata has no such key
NoKey == "<no key>"

\* fragments made of white space only; "" is the empty string
WhitespaceFragments == {"", " ", "\n", " \n\t "}

\* `not text.strip()`
IsBlank(text) == \A i \in DOMAIN text : text[i] \in WhitespaceFragments

\* truth value of metadata.get(key)
MetaTruthy(v) == v # NoKey /\ v # ""

Document(content, title, source_id, page) ==
    [content |-> content, title |-> title, source_id |-> source_id, page |-> page]

\* the documents a search may return
CtxDocuments ==
    {Document(<<>>, NoKey, NoKey, PageStr("")),
     Document(<<" \n\t ">>, NoKey, NoKey, PageInt("0")),
     Document(<<"El informe documenta", " ", "8 tomos">>, NoKey, "", PageStr("")),
     Document(<<>>, "Hallazgos y recomendaciones", NoKey, PageStr("")),
     Document(<<" ">>, NoKey, NoKey, PageInt("12")),
     Document(<<"No content available">>, "Cuando los pajaros no cantaban, tomo 2",
              "Tomo 2", PageStr("45"))}

\* meta_string of one document; "\\n" is a backslash and an n, as the source writes
MetaString(doc) ==
    (IF MetaTruthy(doc.title) THEN <<"Title: ", doc.title, "\\n">> ELSE <<>>) \o
    (IF MetaTruthy(doc.source_id) THEN <<"Source: ", doc.source_id, "\\n">> ELSE <<>>) \o
    (IF PageTruthy(doc.page) THEN <<"Page: ", PyStr(doc.page), "\\n">> ELSE <<>>)

FullContent(doc) ==
    LET meta_string == MetaString(doc)
    IN  IF meta_string # <<>> THEN meta_string \o <<"\\n">> \o doc.content
        ELSE doc.content

\* "\\n\\n---\\n\\n".join(context_pieces)
RECURSIVE JoinContext(_)
JoinContext(context_pieces) ==
    IF context_pieces = <<>> THEN <<>>
    ELSE IF Len(context_pieces) = 1 THEN Head(context_pieces)
    ELSE Head(context_pieces) \o <<"\\n\\n---\\n\\n">> \o JoinContext(Tail(context_pieces))

\* titles and source ids by what _build_reference asks of them
StartsWithTomo(source_id) == source_id \in {"Tomo 2"}
ContainsVol(text) == text \in {"Volumen testimonial"}
ContainsTomo(text) == text \in {"Cuando los pajaros no cantaban, tomo 2", "Tomo 2"}

_build_reference(document, number) ==
    LET title  == IF document.title = NoKey THEN "Untitled document" ELSE document.title
        source == IF document.source_id = NoKey THEN "" ELSE document.source_id
    IN  [number    |-> number,
         title     |-> title,
         source_id |-> IF ~StartsWithTomo(source) /\ ~ContainsVol(source)
                          /\ (ContainsTomo(title) \/ ContainsVol(title))
                       THEN title ELSE source,
         page      |-> PyStr(document.page),
         year      |-> "2022",
         publisher |-> "Colombia. Comision de la Verdad",
         isbn      |-> "978-958-53874-3-0"]

NoRelevantInformation ==
    <<"No relevant information was found for this question in the database.">>

\* the pieces and the references of the loop `for i, doc in enumerate(documents)`
ContextPieces(docs) ==
    LET kept == {i \in DOMAIN docs : ~IsBlank(FullContent(docs[i]))}
        RECURSIVE pieces(_)
        pieces(i) == IF i > Len(docs) THEN <<>>
                     ELSE (IF i \in kept THEN <<FullContent(docs[i])>> ELSE <<>>)
                          \o pieces(i + 1)
    IN  pieces(1)

\* mutant: the test `i < 3` is missing
TopReferences_AllDocuments(docs) ==
    [i \in 1..Len(docs) |-> _build_reference(docs[i], i)]

TopReferences(docs) ==
    [i \in 1..Min(Len(docs), ContextReferences) |-> _build_reference(docs[i], i)]

\* mutant: the joined text is returned as it is
build_context_NoSentinel(docs) ==
    [documents    |-> docs,
     context_text |-> JoinContext(ContextPieces(docs)),
     references   |-> TopReferences(docs)]

build_context(docs) ==
    LET context_text == JoinContext(ContextPieces(docs))
    IN  [documents    |-> docs,
         context_text |-> IF IsBlank(context_text) THEN NoRelevantInformation
                          ELSE context_text,
         references   |-> TopReferences(docs)]

NoContext == [documents |-> <<>>, context_text |-> <<>>, references |-> <<>>]

CtxInit ==
    /\ ctx_pc = "input"
    /\ ctx_documents = <<>>
    /\ rag_context = NoContext
    /\ llm_context = <<>>

\* one more document in the list the search returned
SearchReturnsDocument ==
    /\ ctx_pc = "input"
    /\ Len(ctx_documents) < MaxCtxDocs
    /\ \E doc \in CtxDocuments : ctx_documents' = Append(ctx_documents, doc)
    /\ UNCHANGED <<ctx_pc, rag_context, llm_context>>
    /\ UNCHANGED notCtx

\* process_question, traditional path: rag_context = build_context(documents, ...)
BuildContext ==
    /\ ctx_pc = "input"
    /\ rag_context' = build_context(ctx_documents)
    /\ ctx_pc' = "built"
    /\ UNCHANGED <<ctx_documents, llm_context>>
    /\ UNCHANGED notCtx

\* process_question, traditional path: generate_answer(question, context_text, ...)
GenerateAnswer ==
    /\ ctx_pc = "built"
    /\ llm_context' = rag_context.context_text
    /\ ctx_pc' = "generated"
    /\ UNCHANGED <<ctx_documents, rag_context>>
    /\ UNCHANGED notCtx

CtxIdle ==
    /\ ctx_pc = "off"
    /\ ctx_documents = <<>>
    /\ rag_context = NoContext
    /\ llm_context = <<>>

-----------------------------------------------------------------------------
(* The legacy process: main.py. verify_milvus_collections runs in a daemon  *)
(* thread started at import; add_message handlers run beside it. Both read  *)
(* and write the module attributes config.ABSTRACT_COLLECTION and           *)
(* config.EMBEDDING_DIMENSION, and no lock guards either.                   *)

\* handlers of add_message running beside the startup thread
MaxHandlers == 1

Handlers == 1..MaxHandlers

\* attempts of verify_milvus_collections
max_attempts == 5

\* config.ALTERNATIVE_COLLECTION_NAMES
ALTERNATIVE_COLLECTION_NAMES ==
    <<ABSTRACT_COLLECTION, QualifiedName, QualifiedName, DefaultName>>

\* f"{config.MILVUS_DATABASE}.{name}"
Qualify(name) ==
    CASE name = ABSTRACT_COLLECTION -> QualifiedName
      [] name = QualifiedName -> "colombia_data_qaps.colombia_data_qaps.source_abstract"
      [] OTHER -> "colombia_data_qaps.default_source_abstract"

\* f"{config.MILVUS_DATABASE}/{name}"
SlashName(name) ==
    CASE name = ABSTRACT_COLLECTION -> LastAttemptName
      [] name = QualifiedName -> "colombia_data_qaps/colombia_data_qaps.source_abstract"
      [] OTHER -> "colombia_data_qaps/default_source_abstract"

CfgNames == {ABSTRACT_COLLECTION, QualifiedName, DefaultName}

\* the stores the process may start beside
CfgStores ==
    {st \in [CfgNames -> Shapes] :
        /\ st[ABSTRACT_COLLECTION] \in
               {Absent, Stored(EMBEDDING_DIMENSION, 1), Stored(LargeDimension, 0)}
        /\ st[QualifiedName] \in {Absent, Stored(LargeDimension, 1)}
        /\ st[DefaultName] \in {Absent, Stored(EMBEDDING_DIMENSION, 0)}}

\* utility.has_collection(name)
has_collection(name) == name \in CfgNames /\ cfg_store[name].exists

\* utility.list_collections(), in an order the store chooses
CfgListings ==
    LET existing == {n \in CfgNames : cfg_store[n].exists}
    IN  {l \in [1..Cardinality(existing) -> existing] :
            \A i, j \in DOMAIN l : i # j => l[i] # l[j]}

\* the first name of a sequence that satisfies has_collection ("" if none)
RECURSIVE FirstExisting(_)
FirstExisting(names) ==
    IF names = <<>> THEN ""
    ELSE IF has_collection(Head(names)) THEN Head(names)
    ELSE FirstExisting(Tail(names))

NoPair == [collection |-> "", dimension |-> 0]

CfgInit ==
    /\ cfg_store \in CfgStores
    /\ config_collection = ABSTRACT_COLLECTION
    /\ config_dimension = EMBEDDING_DIMENSION
    /\ v_pc = "reset"
    /\ v_attempt = 0
    /\ v_candidates = <<>>
    /\ h_pc = [h \in Handlers |-> "start"]
    /\ h_collection = [h \in Handlers |-> ""]
    /\ h_len = [h \in Handlers |-> 0]
    /\ h_saw = [h \in Handlers |-> NoPair]

\* main.py 39: each attempt starts by resetting the configured name
VerifyReset ==
    /\ v_pc = "reset"
    /\ config_collection' = ABSTRACT_COLLECTION
    /\ v_pc' = "connect"
    /\ UNCHANGED <<cfg_store, config_dimension, v_attempt, v_candidates,
                   h_pc, h_collection, h_len, h_saw>>
    /\ UNCHANGED notCfg

\* main.py 52-58 and 129-135: the connection is there, or connect() raises and
\* the attempt is abandoned; the last attempt gives up
VerifyConnect ==
    /\ v_pc = "connect"
    /\ \E connected \in BOOLEAN :
         IF connected THEN v_pc' = "list" /\ v_attempt' = v_attempt
         ELSE IF v_attempt < max_attempts - 1
              THEN v_pc' = "reset" /\ v_attempt' = v_attempt + 1
              ELSE v_pc' = "gave_up" /\ v_attempt' = v_attempt
    /\ UNCHANGED <<cfg_store, config_collection, config_dimension, v_candidates,
                   h_pc, h_collection, h_len, h_saw>>
    /\ UNCHANGED notCfg

\* main.py 74-93: the first alternative name that is listed becomes the
\* configured name; the candidates are then built from it
VerifyList ==
    /\ v_pc = "list"
    /\ LET found == FirstExisting(ALTERNATIVE_COLLECTION_NAMES)
           named == IF found # "" THEN found ELSE config_collection
       IN  /\ config_collection' = named
           /\ v_candidates' = ALTERNATIVE_COLLECTION_NAMES \o <<Qualify(named)>>
    /\ v_pc' = "probe"
    /\ UNCHANGED <<cfg_store, config_dimension, v_attempt,
                   h_pc, h_collection, h_len, h_saw>>
    /\ UNCHANGED notCfg

\* main.py 94-111: a candidate that exists has its schema read, and the
\* configured dimension is overwritten when it differs
VerifyDimension ==
    /\ v_pc = "probe"
    /\ v_candidates # <<>>
    /\ LET collection_name == Head(v_candidates)
       IN  IF has_collection(collection_name)
           THEN /\ config_dimension' = cfg_store[collection_name].dim
                /\ v_pc' = "count"
                /\ v_candidates' = v_candidates
           ELSE /\ v_candidates' = Tail(v_candidates)
                /\ UNCHANGED <<config_dimension, v_pc>>
    /\ UNCHANGED <<cfg_store, config_collection, v_attempt,
                   h_pc, h_collection, h_len, h_saw>>
    /\ UNCHANGED notCfg

\* main.py 114-121: a candidate with data becomes the configured name and ends
\* the loop; an empty one is passed over
VerifyCount ==
    /\ v_pc = "count"
    /\ LET collection_name == Head(v_candidates)
       IN  IF cfg_store[collection_name].num_entities > 0
           THEN /\ config_collection' = collection_name
                /\ v_pc' = "done"
                /\ v_candidates' = v_candidates
           ELSE /\ v_candidates' = Tail(v_candidates)
                /\ v_pc' = "probe"
                /\ UNCHANGED config_collection
    /\ UNCHANGED <<cfg_store, config_dimension, v_attempt,
                   h_pc, h_collection, h_len, h_saw>>
    /\ UNCHANGED notCfg

\* main.py 128: every candidate was examined
VerifyEnd ==
    /\ v_pc = "probe"
    /\ v_candidates = <<>>
    /\ v_pc' = "done"
    /\ UNCHANGED <<cfg_store, config_collection, config_dimension, v_attempt,
                   v_candidates, h_pc, h_collection, h_len, h_saw>>
    /\ UNCHANGED notCfg

\* main.py 334 and 368, rag_service.get_embedding: the provider's vector, or
\* on failure a zero vector as long as the configured dimension
HandlerEmbed(h) ==
    /\ h_pc[h] \in {"start", "regenerate"}
    /\ \E provided \in BOOLEAN :
         h_len' = [h_len EXCEPT ![h] =
                     IF provided THEN EMBEDDING_DIMENSION ELSE config_dimension]
    /\ h_pc' = [h_pc EXCEPT ![h] = IF h_pc[h] = "start" THEN "resolve" ELSE "search"]
    /\ UNCHANGED <<cfg_store, config_collection, config_dimension, v_pc, v_attempt,
                   v_candidates, h_collection, h_saw>>
    /\ UNCHANGED notCfg

\* rag_service.get_abstract_collection, lines 193-203, with the configured
\* name as it is when the handler runs
RECURSIVE CfgInsertFound(_, _, _)
CfgInsertFound(collections, collection_candidates, configured) ==
    IF collections = <<>> THEN collection_candidates
    ELSE LET collection == Head(collections)
         IN  CfgInsertFound(Tail(collections),
                 IF collection \in Range(collection_candidates)
                    \/ collection = configured
                 THEN <<collection>> \o collection_candidates
                 ELSE collection_candidates,
                 configured)

\* main.py 351: the handler resolves the collection from the configured name
HandlerResolve(h) ==
    /\ h_pc[h] = "resolve"
    /\ \E collections \in CfgListings :
         LET collection_candidates ==
                 CfgInsertFound(collections,
                     <<config_collection, Qualify(config_collection)>>,
                     config_collection)
             name == FirstExisting(collection_candidates
                                   \o <<SlashName(config_collection)>>)
         IN  /\ h_collection' = [h_collection EXCEPT ![h] = name]
             /\ h_pc' = [h_pc EXCEPT ![h] = IF name = "" THEN "failed" ELSE "resolved"]
    /\ UNCHANGED <<cfg_store, config_collection, config_dimension, v_pc, v_attempt,
                   v_candidates, h_len, h_saw>>
    /\ UNCHANGED notCfg

\* main.py 354-368: the handler reads the configured pair and overwrites the
\* configured dimension with the one of the collection it resolved
HandlerCompare(h) ==
    /\ h_pc[h] = "resolved"
    /\ LET dim == cfg_store[h_collection[h]].dim
       IN  /\ h_saw' = [h_saw EXCEPT ![h] = [collection |-> config_collection,
                                            dimension |-> config_dimension]]
           /\ config_dimension' = dim
           /\ h_pc' = [h_pc EXCEPT ![h] =
                         IF dim # config_dimension /\ h_len[h] # dim
                         THEN "regenerate" ELSE "search"]
    /\ UNCHANGED <<cfg_store, config_collection, v_pc, v_attempt, v_candidates,
                   h_collection, h_len>>
    /\ UNCHANGED notCfg

CfgIdle ==
    /\ cfg_store = [n \in CfgNames |-> Absent]
    /\ config_collection = ABSTRACT_COLLECTION
    /\ config_dimension = EMBEDDING_DIMENSION
    /\ v_pc = "off"
    /\ v_attempt = 0
    /\ v_candidates = <<>>
    /\ h_pc = [h \in Handlers |-> "off"]
    /\ h_collection = [h \in Handlers |-> ""]
    /\ h_len = [h \in Handlers |-> 0]
    /\ h_saw = [h \in Handlers |-> NoPair]

-----------------------------------------------------------------------------
(* API keys: infrastructure/auth.py and the routes of controllers.py        *)

\* comma-separated entries of API_KEYS
MaxKeys == 2

\* requests the API receives
MaxRequests == 2

\* the entries of API_KEYS between its commas, as written in the environment
KeyEntries == {"", " ", "key-a", " key-a ", "key-b"}

\* key.strip()
Strip(key) ==
    CASE key = " " -> ""
      [] key = " key-a " -> "key-a"
      [] OTHER -> key

\* os.getenv("API_KEYS", "").split(","): unset and empty both give one empty entry
Environments == UNION {[1..n -> KeyEntries] : n \in 1..MaxKeys}

NoHeader == [scheme |-> "", credentials |-> ""]

\* the Authorization header of a request: absent, or a scheme and a parameter
AuthorizationHeaders ==
    {NoHeader,
     [scheme |-> "Bearer", credentials |-> ""],
     [scheme |-> "Bearer", credentials |-> "key-a"],
     [scheme |-> "bearer", credentials |-> "key-b"],
     [scheme |-> "Bearer", credentials |-> "invalid_key_123"],
     [scheme |-> "Bearer", credentials |-> " key-a "],
     [scheme |-> "Basic", credentials |-> "key-a"]}

HealthRoute == "GET /api/"

\* routes registered with dependencies=[Depends(require_api_key)]
ProtectedRoutes == {"GET /api/chats", "POST /api/chats", "POST /api/chats/{chat_id}/messages"}

NoCredentials == [present |-> FALSE, credentials |-> ""]

\* security = HTTPBearer(auto_error=False): the credentials of a header whose
\* scheme is bearer in any case and whose parameter is not empty, else None
security(authorization) ==
    IF authorization.scheme \in {"Bearer", "bearer"} /\ authorization.credentials # ""
    THEN [present |-> TRUE, credentials |-> authorization.credentials]
    ELSE NoCredentials

\* mutant: every key is taken for valid
validate_api_key_AnyKey(api_key) == TRUE

\* APIKeyManager.validate_api_key
validate_api_key(api_key) ==
    IF ~auth_enabled THEN TRUE ELSE api_key \in valid_api_keys

Unauthorized(detail) == [status |-> 401, detail |-> detail, api_key |-> ""]

\* get_api_key: the key the request is served under, or the HTTPException
get_api_key(credentials) ==
    IF ~auth_enabled THEN [status |-> 200, detail |-> "", api_key |-> "no-auth"]
    ELSE IF ~credentials.present
    THEN Unauthorized("API key required. Please provide Authorization header with Bearer token.")
    ELSE IF ~validate_api_key(credentials.credentials)
    THEN Unauthorized("Invalid API key")
    ELSE [status |-> 200, detail |-> "", api_key |-> credentials.credentials]

NoRequest == [route |-> "", authorization |-> NoHeader]
NoResponse == [status |-> 0, detail |-> "", api_key |-> ""]

AuthInit ==
    /\ API_KEYS \in Environments
    /\ valid_api_keys = {}
    /\ auth_enabled = FALSE
    /\ a_pc = "import"
    /\ a_request = NoRequest
    /\ a_response = NoResponse
    /\ a_nreq = 0

\* api_key_manager = APIKeyManager()
APIKeyManager ==
    /\ a_pc = "import"
    /\ LET keys == {Strip(API_KEYS[i]) : i \in DOMAIN API_KEYS} \ {""}
       IN  /\ valid_api_keys' = keys
           /\ auth_enabled' = (Cardinality(keys) > 0)
    /\ a_pc' = "idle"
    /\ UNCHANGED <<API_KEYS, a_request, a_response, a_nreq>>
    /\ UNCHANGED notAuth

\* a client sends a request
ReceiveRequest ==
    /\ a_pc = "idle"
    /\ a_nreq < MaxRequests
    /\ \E route \in ProtectedRoutes \cup {HealthRoute},
          authorization \in AuthorizationHeaders :
         a_request' = [route |-> route, authorization |-> authorization]
    /\ a_nreq' = a_nreq + 1
    /\ a_pc' = "routing"
    /\ a_response' = NoResponse
    /\ UNCHANGED <<API_KEYS, valid_api_keys, auth_enabled>>
    /\ UNCHANGED notAuth

\* HealthController.health_check: a route without dependencies
health_check ==
    /\ a_pc = "routing"
    /\ a_request.route = HealthRoute
    /\ a_response' = [status |-> 200, detail |-> "", api_key |-> ""]
    /\ a_pc' = "idle"
    /\ UNCHANGED <<API_KEYS, valid_api_keys, auth_enabled, a_request, a_nreq>>
    /\ UNCHANGED notAuth

\* a route with Depends(require_api_key): the handler runs under the key that
\* get_api_key returns, or the request ends with its HTTPException
require_api_key ==
    /\ a_pc = "routing"
    /\ a_request.route \in ProtectedRoutes
    /\ a_response' = get_api_key(security(a_request.authorization))
    /\ a_pc' = "idle"
    /\ UNCHANGED <<API_KEYS, valid_api_keys, auth_enabled, a_request, a_nreq>>
    /\ UNCHANGED notAuth

AuthIdle ==
    /\ API_KEYS = <<"">>
    /\ valid_api_keys = {}
    /\ auth_enabled = FALSE
    /\ a_pc = "off"
    /\ a_request = NoRequest
    /\ a_response = NoResponse
    /\ a_nreq = 0

-----------------------------------------------------------------------------
(* The text sent to the embedding provider: openai_services.py 20-24 and    *)
(* rag_service.py 132-136, which clean the text in the same way             *)

\* fragments of the text given to embedding generation
MaxTextLen == 3

\* a text is a sequence of fragments: single white-space characters and words
SpaceCharacters == {" ", "\n", "\t", "\r"}
TextFragments == SpaceCharacters \cup {"paz"}

EmptyQuery == <<"Empty", " ", "query">>

\* text.replace("\n", " ")
ReplaceNewlines(text) ==
    [i \in DOMAIN text |-> IF text[i] = "\n" THEN " " ELSE text[i]]

\* text.strip(): white space is removed from both ends
RECURSIVE LeftStrip(_)
LeftStrip(text) ==
    IF text # <<>> /\ Head(text) \in SpaceCharacters THEN LeftStrip(Tail(text))
    ELSE text

RECURSIVE RightStrip(_)
RightStrip(text) ==
    IF text # <<>> /\ text[Len(text)] \in SpaceCharacters
    THEN RightStrip(SubSeq(text, 1, Len(text) - 1))
    ELSE text

PyStrip(text) == RightStrip(LeftStrip(text))

\* the text as it is sent: `if not text: text = "Empty query"`, then
\* text.replace("\n", " ").strip()
CleanText(text) ==
    PyStrip(ReplaceNewlines(IF text = <<>> THEN EmptyQuery ELSE text))

EmbedInit ==
    /\ e_pc = "input"
    /\ e_text = <<>>
    /\ e_sent = <<>>

\* the caller's text holds one more fragment
AppendTextFragment ==
    /\ e_pc = "input"
    /\ Len(e_text) < MaxTextLen
    /\ \E f \in TextFragments : e_text' = Append(e_text, f)
    /\ UNCHANGED <<e_pc, e_sent>>
    /\ UNCHANGED notEmbed

\* generate_embedding / get_embedding up to client.embeddings.create(input=text)
embeddings_create ==
    /\ e_pc = "input"
    /\ e_sent' = CleanText(e_text)
    /\ e_pc' = "sent"
    /\ UNCHANGED e_text
    /\ UNCHANGED notEmbed

EmbedIdle ==
    /\ e_pc = "off"
    /\ e_text = <<>>
    /\ e_sent = <<>>

-----------------------------------------------------------------------------
(* The mapping of exceptions to user-facing messages: controllers.py        *)
(* 134-148 over process_question, and main.py 581-602                       *)

\* the substrings the handlers look for; an exception's text is modelled by
\* the set of those it contains (in lower case; "is empty" and "está vacía"
\* as written)
Keywords == {"empty", "is empty", "está vacía", "connection", "connect",
             "dimension", "dimensión"}

\* texts of exceptions raised by the providers' client libraries
ProviderTexts ==
    {ws \in SUBSET Keywords :
        /\ "connection" \in ws => "connect" \in ws
        /\ "is empty" \in ws => "empty" \in ws}

Categories == {"empty", "connection", "dimension", "other"}

NoException == [type |-> "none", words |-> {}]

\* QuestionController.add_message, controllers.py 137-146
error_message(words) ==
    IF "empty" \in words \/ "está vacía" \in words THEN
        "The database contains no documents. Please ensure data has been correctly loaded."
    ELSE IF "connection" \in words \/ "connect" \in words THEN
        "Could not connect to the database. Please verify the connection."
    ELSE IF "dimension" \in words \/ "dimensión" \in words THEN
        "There is a problem with the vector dimensions. Please verify the configuration."
    ELSE "Could not process the question. Please try again."

\* add_message of main.py, 587-597
user_message(words) ==
    IF "está vacía" \in words \/ "is empty" \in words THEN
        "The database contains no documents. Please ensure data has been correctly loaded into the collection."
    ELSE IF "connection" \in words \/ "connect" \in words THEN
        "Could not connect to the database. Please verify the connection to the Milvus server."
    ELSE IF "dimension" \in words \/ "dimensión" \in words THEN
        "There is a problem with the vector dimensions. Please verify the embeddings model configuration."
    ELSE "Could not process the question. Please try again."

ErrInit ==
    /\ err_pc = "start"
    /\ err_impl = "clean"
    /\ err_failure = "other"
    /\ err_exc = NoException
    /\ err_http = NoHttp

\* main.py 330-424: whatever makes the search fail (rag_service.py 269 for an
\* empty collection, a lost connection, a dimension error) is caught and
\* printed at 400-404, the alternative names fail alike, and line 424 raises
\* "No relevant documents found in the collection. Please review the
\* embedding dimensions configuration and collection availability."
SearchFails ==
    /\ err_pc = "start"
    /\ \E category \in Categories : err_failure' = category
    /\ err_impl' = "legacy"
    /\ err_exc' = [type |-> "Exception", words |-> {"dimension"}]
    /\ err_pc' = "raised"
    /\ UNCHANGED err_http
    /\ UNCHANGED notErr

\* a call to the embedding or completion provider raises, with the text the
\* client library gives it
ProviderFails ==
    /\ err_pc = "start"
    /\ \E i \in {"clean", "legacy"}, category \in {"connection", "other"},
          text \in ProviderTexts :
         /\ err_impl' = i
         /\ err_failure' = category
         /\ err_exc' = [type |-> "Exception", words |-> text]
         /\ err_pc' = IF i = "clean" THEN "in_try" ELSE "raised"
    /\ UNCHANGED err_http
    /\ UNCHANGED notErr

\* milvus_vector_db.py 98-105: the embedding has the wrong length
DimensionMismatch ==
    /\ err_pc = "start"
    /\ err_impl' = "clean"
    /\ err_failure' = "dimension"
    /\ err_exc' = [type |-> "ValueError", words |-> {"dimension"}]
    /\ err_pc' = "in_try"
    /\ UNCHANGED err_http
    /\ UNCHANGED notErr

\* use_cases.py 84-86: the chat does not exist
ChatNotFound ==
    /\ err_pc = "start"
    /\ err_impl' = "clean"
    /\ err_failure' = "other"
    /\ err_exc' = [type |-> "ValueError", words |-> {}]
    /\ err_pc' = "raised"
    /\ UNCHANGED err_http
    /\ UNCHANGED notErr

\* use_cases.py 152-167: raise Exception(f"Error processing question: {e}")
process_question_except ==
    /\ err_pc = "in_try"
    /\ err_exc' = [type |-> "Exception", words |-> err_exc.words]
    /\ err_pc' = "raised"
    /\ UNCHANGED <<err_impl, err_failure, err_http>>
    /\ UNCHANGED notErr

\* controllers.py 134-148
controller_add_message ==
    /\ err_pc = "raised"
    /\ err_impl = "clean"
    /\ err_http' = IF err_exc.type = "ValueError"
                   THEN [status |-> 404, detail |-> "str(e)"]
                   ELSE [status |-> 500, detail |-> error_message(err_exc.words)]
    /\ err_pc' = "answered"
    /\ UNCHANGED <<err_impl, err_failure, err_exc>>
    /\ UNCHANGED notErr

\* main.py 581-602
legacy_add_message ==
    /\ err_pc = "raised"
    /\ err_impl = "legacy"
    /\ err_http' = [status |-> 500, detail |-> user_message(err_exc.words)]
    /\ err_pc' = "answered"
    /\ UNCHANGED <<err_impl, err_failure, err_exc>>
    /\ UNCHANGED notErr

ErrIdle ==
    /\ err_pc = "off"
    /\ err_impl = "clean"
    /\ err_failure = "other"
    /\ err_exc = NoException
    /\ err_http = NoHttp

-----------------------------------------------------------------------------
(* Runs of process_question for one chat against SQLiteChatSessionRepository *)
(* (use_cases.py 76-167, sqlite_chat_repository.py 119-196). A run gives up  *)
(* the event loop at each await; find_by_id and save each run in one          *)
(* connection and one transaction.                                            *)

Runs == {1, 2}

UserMessage(r) == ChatMsg(<<"question " \o ToString(r)>>, FALSE, <<>>)
BotMessage(r) == ChatMsg(<<"answer " \o ToString(r)>>, TRUE, <<>>)
ErrorResponse == ChatMsg(<<Apology>>, TRUE, <<>>)

RunInit ==
    /\ rows \in {StoredChat(n) : n \in 0..MaxStored}
    /\ run_pc = [r \in Runs |-> "start"]
    /\ run_session = [r \in Runs |-> <<>>]

\* use_cases.py 84-95: find_by_id builds a ChatSession from the rows of the
\* chat (sqlite_chat_repository.py 169-196), and the user message is appended
\* to that object
find_by_id(r) ==
    /\ run_pc[r] = "start"
    /\ run_session' = [run_session EXCEPT ![r] = Append(rows, UserMessage(r))]
    /\ run_pc' = [run_pc EXCEPT ![r] = "asked"]
    /\ UNCHANGED rows
    /\ UNCHANGED notRun

\* use_cases.py 97-145: the answer is generated and appended, or the
\* generation raises and the except clause appends the error response (152-164)
generate_answer(r) ==
    /\ run_pc[r] = "asked"
    /\ \/ /\ run_session' = [run_session EXCEPT ![r] = Append(@, BotMessage(r))]
          /\ run_pc' = [run_pc EXCEPT ![r] = "saving"]
       \/ /\ run_session' = [run_session EXCEPT ![r] = Append(@, ErrorResponse)]
          /\ run_pc' = [run_pc EXCEPT ![r] = "failed"]
    /\ UNCHANGED rows
    /\ UNCHANGED notRun

\* use_cases.py 148-150 over sqlite_chat_repository.py 119-167: the rows of
\* the chat are deleted and the messages of the object inserted, in one
\* transaction; or the transaction raises and the except clause appends the
\* error response
save(r) ==
    /\ run_pc[r] = "saving"
    /\ \/ /\ rows' = run_session[r]
          /\ run_pc' = [run_pc EXCEPT ![r] = "done"]
          /\ UNCHANGED run_session
       \/ /\ run_session' = [run_session EXCEPT ![r] = Append(@, ErrorResponse)]
          /\ run_pc' = [run_pc EXCEPT ![r] = "failed"]
          /\ UNCHANGED rows
    /\ UNCHANGED notRun

\* use_cases.py 165-167: the save of the except clause, then the raise
save_error_response(r) ==
    /\ run_pc[r] = "failed"
    /\ \/ rows' = run_session[r]
       \/ UNCHANGED rows
    /\ run_pc' = [run_pc EXCEPT ![r] = "raised"]
    /\ UNCHANGED run_session
    /\ UNCHANGED notRun

RunIdle ==
    /\ rows = <<>>
    /\ run_pc = [r \in Runs |-> "off"]
    /\ run_session = [r \in Runs |-> <<>>]

-----------------------------------------------------------------------------
(* Specifications *)

\* one question through generate_answer_with_tools and its handler
Next ==
    \/ Start
    \/ CallModelFails
    \/ CallModelAnswers
    \/ CallModelRequestsTools
    \/ ProcessToolCall
    \/ FinalCall
    \/ Finish

Init == OrchInit /\ CiteIdle /\ SearchIdle /\ CtxIdle /\ CfgIdle /\ AuthIdle /\ EmbedIdle /\ ErrIdle /\ RunIdle

Spec == Init /\ [][Next]_vars

\* _extract_references_from_contexts on the contexts built up
NextRefs ==
    \/ AddContext
    \/ AddDocument
    \/ ExtractReferences

InitRefs == OrchIdle /\ RefsInit /\ SearchIdle /\ CtxIdle /\ CfgIdle /\ AuthIdle /\ EmbedIdle /\ ErrIdle /\ RunIdle

SpecRefs == InitRefs /\ [][NextRefs]_vars

\* _format_response_with_sources on an answer built up
NextFormat ==
    \/ AppendFragment
    \/ FormatResponse

InitFormat == OrchIdle /\ FormatInit /\ SearchIdle /\ CtxIdle /\ CfgIdle /\ AuthIdle /\ EmbedIdle /\ ErrIdle /\ RunIdle

SpecFormat == InitFormat /\ [][NextFormat]_vars

\* a client of the vector store answering search requests
NextSearch ==
    \/ Connect
    \/ generate_embedding
    \/ search_similar_documents
    \/ diagnose_milvus_collection
    \/ get_embedding
    \/ get_abstract_collection
    \/ get_documents_from_query

InitSearch == OrchIdle /\ CiteIdle /\ SearchInit /\ CtxIdle /\ CfgIdle /\ AuthIdle /\ EmbedIdle /\ ErrIdle /\ RunIdle

SpecSearch == InitSearch /\ [][NextSearch]_vars

\* the search clients beside a store that loses entities while they run
NextLive ==
    \/ Connect
    \/ generate_embedding
    \/ search_similar_documents
    \/ diagnose_milvus_collection
    \/ get_embedding
    \/ get_abstract_collection
    \/ get_documents_from_query
    \/ EntitiesDeleted

InitLive == OrchIdle /\ CiteIdle /\ LiveInit /\ CtxIdle /\ CfgIdle /\ AuthIdle /\ EmbedIdle /\ ErrIdle /\ RunIdle

SpecLive == InitLive /\ [][NextLive]_vars

\* build_context on a document list built up, then generation
NextCtx ==
    \/ SearchReturnsDocument
    \/ BuildContext
    \/ GenerateAnswer

InitCtx == OrchIdle /\ CiteIdle /\ SearchIdle /\ CtxInit /\ CfgIdle /\ AuthIdle /\ EmbedIdle /\ ErrIdle /\ RunIdle

SpecCtx == InitCtx /\ [][NextCtx]_vars

\* the startup thread of main.py beside its add_message handlers
NextCfg ==
    \/ VerifyReset
    \/ VerifyConnect
    \/ VerifyList
    \/ VerifyDimension
    \/ VerifyCount
    \/ VerifyEnd
    \/ \E h \in Handlers : HandlerEmbed(h)
    \/ \E h \in Handlers : HandlerResolve(h)
    \/ \E h \in Handlers : HandlerCompare(h)

InitCfg == OrchIdle /\ CiteIdle /\ SearchIdle /\ CtxIdle /\ CfgInit /\ AuthIdle /\ EmbedIdle /\ ErrIdle /\ RunIdle

SpecCfg == InitCfg /\ [][NextCfg]_vars

\* the API of src/main.py with its key manager
NextAuth ==
    \/ APIKeyManager
    \/ ReceiveRequest
    \/ health_check
    \/ require_api_key

InitAuth == OrchIdle /\ CiteIdle /\ SearchIdle /\ CtxIdle /\ CfgIdle /\ AuthInit /\ EmbedIdle /\ ErrIdle /\ RunIdle

SpecAuth == InitAuth /\ [][NextAuth]_vars

\* the cleaning of the text before the embedding request
NextEmbed ==
    \/ AppendTextFragment
    \/ embeddings_create

InitEmbed == OrchIdle /\ CiteIdle /\ SearchIdle /\ CtxIdle /\ CfgIdle /\ AuthIdle /\ EmbedInit /\ ErrIdle /\ RunIdle

SpecEmbed == InitEmbed /\ [][NextEmbed]_vars

\* exceptions on their way to the user
NextErr ==
    \/ SearchFails
    \/ ProviderFails
    \/ DimensionMismatch
    \/ ChatNotFound
    \/ process_question_except
    \/ controller_add_message
    \/ legacy_add_message

InitErr == OrchIdle /\ CiteIdle /\ SearchIdle /\ CtxIdle /\ CfgIdle /\ AuthIdle /\ EmbedIdle /\ ErrInit /\ RunIdle

SpecErr == InitErr /\ [][NextErr]_vars

\* two runs of process_question for one chat
NextRun ==
    \/ \E r \in Runs : find_by_id(r)
    \/ \E r \in Runs : generate_answer(r)
    \/ \E r \in Runs : save(r)
    \/ \E r \in Runs : save_error_response(r)

InitRun == OrchIdle /\ CiteIdle /\ SearchIdle /\ CtxIdle /\ CfgIdle /\ AuthIdle /\ EmbedIdle /\ ErrIdle /\ RunInit

SpecRun == InitRun /\ [][NextRun]_vars



-----------------------------------------------------------------------------
(* Properties of the tool-calling loop                                      *)

Returned == pc \in {"returned", "done"}

LastCall == calls[Len(calls)]

ToolOfferingCalls == {i \in DOMAIN calls : calls[i].tools}

\* the first three completion calls offered the tool and each returned at
\* least one tool invocation
ThreeToolTurns ==
    /\ Len(calls) >= 3
    /\ \A i \in 1..3 : calls[i].tools /\ ~calls[i].failed /\ calls[i].tool_calls # <<>>

\* the last completion call returned a response without tool invocation
TerminalResponse ==
    /\ calls # <<>>
    /\ ~LastCall.failed
    /\ LastCall.tool_calls = <<>>

\* the answer returned for a response of content c: in openai_tools.py the
\* content with its Sources section rewritten, in chat_with_tools.py the content
ExpectedAnswer(c) ==
    IF impl = "tools"
    THEN _format_response_with_sources(c, collected_contexts).content
    ELSE c

\* C1: in every run of generate_answer_with_tools at most 3 completion calls
\* offer the tool and at most 4 completion calls are made in all.
C1_BoundedCalls ==
    /\ Cardinality(ToolOfferingCalls) <= 3
    /\ Len(calls) <= 4

\* C1, witness: a run that made 3 tool-offering calls and a 4th call.
C1_Witness ==
    /\ Len(calls) = 4
    /\ Cardinality(ToolOfferingCalls) = 3

C3_Original ==
    /\ [](TerminalResponse =>
             /\ Returned
             /\ result.content = LastCall.content
             /\ result.contexts = collected_contexts)
    /\ [][TerminalResponse => (calls' = calls /\ retrievals' = retrievals)]_vars

\* C3, amended: a response without tool invocation ends the run there: the
\* answer is the response's content, which openai_tools.py first passes
\* through _format_response_with_sources, the result carries exactly the
\* contexts collected so far, and no completion or retrieval call follows.
C3_TerminalResponse ==
    /\ [](TerminalResponse =>
             /\ Returned
             /\ result.content = ExpectedAnswer(LastCall.content)
             /\ ~result.error
             /\ result.has_contexts
             /\ result.contexts = collected_contexts)
    /\ [][TerminalResponse => (calls' = calls /\ retrievals' = retrievals)]_vars

\* C3, witness: a tool-offering call answered without tool invocation after
\* documents were collected, and the run has returned.
C3_Witness ==
    /\ pc = "done"
    /\ TerminalResponse
    /\ LastCall.tools
    /\ collected_contexts # <<>>
    /\ result.references # <<>>

\* C4 as stated: when a completion call fails, no completion call follows,
\* the answer returned is fixed text (no part of it varies with the failure)
\* and the result carries the contexts collected so far.
C4_Claim ==
    /\ []((calls # <<>> /\ LastCall.failed) =>
             /\ Returned
             /\ Range(result.content) \cap ExceptionTexts = {}
             /\ result.has_contexts
             /\ result.contexts = collected_contexts)
    /\ [][(calls # <<>> /\ LastCall.failed) => calls' = calls]_vars

\* C5 as stated: no bot message stored in the chat and no HTTP detail holds
\* the text of a provider or vector-store exception.
C5_Claim ==
    /\ \A i \in DOMAIN chat :
         chat[i].is_bot => Range(chat[i].content) \cap ExceptionTexts = {}
    /\ Range(http.detail) \cap ExceptionTexts = {}

-----------------------------------------------------------------------------
(* Properties of the citation functions                                     *)

\* the documents of the input, in order
InputDocuments ==
    Flatten([i \in DOMAIN cite_contexts |-> cite_contexts[i].documents])

\* the (title, page) pairs of the input
InputKeys == {<<d.title, PyStr(d.page)>> : d \in Range(InputDocuments)}

\* C6: the extracted references hold no two entries with the same
\* (title, page), are numbered 1..k without gap, and k is at most 8.
C6_DistinctNumbered ==
    cite_pc = "extracted" =>
        LET refs == cite_out.references
        IN  /\ \A i, j \in DOMAIN refs :
                 i # j => <<refs[i].title, refs[i].page>> # <<refs[j].title, refs[j].page>>
            /\ \A i \in DOMAIN refs : refs[i].number = i
            /\ Len(refs) <= 8

\* C6, witness: an input with a repeated document and more than 8 distinct
\* (title, page) pairs, from which 8 references were extracted.
C6_Witness ==
    /\ cite_pc = "extracted"
    /\ Len(cite_out.references) = 8
    /\ Cardinality(InputKeys) > 8
    /\ Len(InputDocuments) > Cardinality(Range(InputDocuments))

\* the references available to the formatter
Available == _extract_references_from_contexts(cite_contexts)

GeneratedHeading == "\n\nSources"

\* the answer text of a formatted content, and the lines of its Sources section
HeadingAt(content) == CHOOSE i \in DOMAIN content : content[i] = GeneratedHeading
AnswerText(content) == SubSeq(content, 1, HeadingAt(content) - 1)
RenderedLines(content) == SubSeq(content, HeadingAt(content) + 1, Len(content))

\* C7: the Sources section lists exactly references 1..n, n the smaller of the
\* number of available references and the highest number cited in the answer
\* text, or of the number of available references and 3 when the answer text
\* cites none. The answer text is what is kept of the answer: a Sources
\* section written by the model is not part of it.
C7_SourcesSection ==
    (cite_pc = "formatted" /\ Available # <<>>) =>
        LET cited == CitedNumbers(AnswerText(cite_out.content))
            n     == IF cited # {} THEN Min(Len(Available), SetMax(cited))
                                   ELSE Min(Len(Available), 3)
        IN  /\ Cardinality({i \in DOMAIN cite_out.content :
                              cite_out.content[i] = GeneratedHeading}) = 1
            /\ RenderedLines(cite_out.content) =
                  [i \in 1..n |-> SourceLine(i, Available[i])]
            /\ cite_out.references = [i \in 1..n |-> Available[i]]

\* C7, witness: the answer [1][2][5] formatted with 3 available references
\* got a Sources section of exactly 3 lines.
C7_Witness ==
    /\ cite_pc = "formatted"
    /\ cite_answer = <<"[1]", "[2]", "[5]">>
    /\ Len(Available) = 3
    /\ Len(RenderedLines(cite_out.content)) = 3

-----------------------------------------------------------------------------
(* Properties of vector search                                              *)

\* the collection the current request searched
Searched == store[_collection]

\* C8 as stated: a request whose vector v has another length than the
\* dimension D of the collection searched issues its query with v cut to its
\* first D entries or followed by D - len(v) zeros, and prints a diagnostic.
C8_Claim ==
    (s_pc = "searched" /\ _collection # "" /\ query_vec # <<>>
       /\ Searched.dim # 0 /\ Searched.num_entities > 0
       /\ Len(query_vec) # Searched.dim) =>
        /\ \E i \in DOMAIN queries :
             /\ queries[i].req = nsearch
             /\ queries[i].collection = _collection
             /\ queries[i].vector =
                   [j \in 1..Searched.dim |->
                       IF j <= Len(query_vec) THEN query_vec[j] ELSE 0]
        /\ \E i \in DOMAIN printed :
             /\ printed[i].req = nsearch
             /\ printed[i].event = "dimension mismatch"

\* C9 as stated: every similarity query issued to the store carries a vector
\* as long as the embedding dimension the schema of the collection searched
\* declares.
C9_Original ==
    \A i \in DOMAIN queries :
        store[queries[i].collection].dim # 0 =>
            Len(queries[i].vector) = store[queries[i].collection].dim

\* C9, amended: every similarity query that get_documents_from_query or
\* search_similar_documents issues to a collection whose schema declares an
\* embedding field carries a vector as long as the dimension it declares
\* (the start-up diagnostic of rag_service.py queries with a vector of
\* config.EMBEDDING_DIMENSION entries whatever the schema declares).
C9_QueryDimension ==
    \A i \in DOMAIN queries :
        (queries[i].by \in {"get_documents_from_query", "search_similar_documents"}
           /\ store[queries[i].collection].dim # 0) =>
            Len(queries[i].vector) = store[queries[i].collection].dim

\* C9, witness: get_documents_from_query was given a vector longer than the
\* dimension of the collection resolved and has issued its query.
C9_Witness ==
    /\ s_impl = "legacy"
    /\ s_pc = "searched"
    /\ s_out = Documents
    /\ Len(query_vec) > Searched.dim
    /\ \E i \in DOMAIN queries :
         /\ queries[i].req = nsearch
         /\ queries[i].by = "get_documents_from_query"
         /\ queries[i].collection = _collection

-----------------------------------------------------------------------------
(* Properties of context assembly                                           *)

\* a document with something to put in the context: a title, a source id or
\* a page in its metadata, or a content that is not white space
Usable(doc) ==
    \/ MetaTruthy(doc.title)
    \/ MetaTruthy(doc.source_id)
    \/ PageTruthy(doc.page)
    \/ \E i \in DOMAIN doc.content : doc.content[i] \notin WhitespaceFragments

\* C10: for every document list build_context returns a context_text that is
\* neither empty nor white space, the fixed sentinel when no document is
\* usable (so for the empty list), and generation receives that text.
C10_ContextNeverBlank ==
    /\ ctx_pc \in {"built", "generated"} =>
         /\ rag_context.context_text # <<>>
         /\ \E i \in DOMAIN rag_context.context_text :
              rag_context.context_text[i] \notin WhitespaceFragments
         /\ (\A i \in DOMAIN ctx_documents : ~Usable(ctx_documents[i])) =>
              rag_context.context_text = NoRelevantInformation
    /\ ctx_pc = "generated" =>
         /\ llm_context = rag_context.context_text
         /\ \E i \in DOMAIN llm_context : llm_context[i] \notin WhitespaceFragments

\* C10, witness: generation was given the sentinel for a list of documents
\* none of which has usable content.
C10_Witness ==
    /\ ctx_pc = "generated"
    /\ Len(ctx_documents) >= 2
    /\ \A i \in DOMAIN ctx_documents : ~Usable(ctx_documents[i])
    /\ llm_context = NoRelevantInformation

-----------------------------------------------------------------------------
(* Properties of the processing of tool calls                               *)

\* the tool call being processed asks for get_relevant_information with
\* arguments that parse and hold no question
MissingQuestion ==
    /\ pc = "tools"
    /\ pending # <<>>
    /\ Head(pending).name = ToolName
    /\ Head(pending).arguments.valid
    /\ Head(pending).arguments.question = ""

\* C11: a tool call whose arguments lack the question is skipped: the step
\* that processes it appends nothing to collected_contexts, makes no
\* retrieval and returns nothing; the rest of the turn's tool calls is next,
\* and after the turn's last call the next completion call.
C11_MissingQuestionSkipped ==
    [][ MissingQuestion =>
          /\ collected_contexts' = collected_contexts
          /\ retrievals' = retrievals
          /\ messages' = messages
          /\ result' = result
          /\ pending' = Tail(pending)
          /\ pc' = IF Tail(pending) # <<>> THEN "tools"
                   ELSE IF Len(calls) < 3 THEN "awaiting" ELSE "final" ]_vars

\* C11, witness: the first response listed a call without question and then
\* a call with one; only the second left a context, and the loop awaits the
\* next completion call.
C11_Witness ==
    /\ pc = "awaiting"
    /\ Len(calls) = 1
    /\ Len(calls[1].tool_calls) = 2
    /\ calls[1].tool_calls[1].name = ToolName
    /\ calls[1].tool_calls[1].arguments = [valid |-> TRUE, question |-> ""]
    /\ Len(collected_contexts) = 1
    /\ collected_contexts[1].question = calls[1].tool_calls[2].arguments.question

-----------------------------------------------------------------------------
(* Properties of collection resolution                                      *)

\* the candidate names of the client, primary name first
ResolutionCandidates ==
    IF s_impl = "adapter" THEN AdapterCandidates
    ELSE <<ABSTRACT_COLLECTION, QualifiedName, LastAttemptName>>

\* the first name of `names` that exists in the store with entities, "" if none
RECURSIVE FirstWithData(_)
FirstWithData(names) ==
    IF names = <<>> THEN ""
    ELSE IF store[Head(names)].exists /\ store[Head(names)].num_entities > 0
         THEN Head(names)
         ELSE FirstWithData(Tail(names))

\* C12 as stated: the collection a resolution returns is the first
\* candidate, primary name then alternatives, that exists in the store with
\* a non-zero entity count; so it is never missing and never empty.
C12_Claim ==
    _collection # "" =>
        /\ store[_collection].exists
        /\ store[_collection].num_entities > 0
        /\ _collection = FirstWithData(ResolutionCandidates)

\* the configured dimension is the schema dimension of the configured collection
Consistent(pair) ==
    has_collection(pair.collection) =>
        pair.dimension = cfg_store[pair.collection].dim

\* the pair verify_milvus_collections leaves when it runs alone over the
\* candidates, starting from the given pair
RECURSIVE ProbeAlone(_, _)
ProbeAlone(candidates, pair) ==
    IF candidates = <<>> THEN pair
    ELSE LET collection_name == Head(candidates)
         IN  IF ~has_collection(collection_name)
             THEN ProbeAlone(Tail(candidates), pair)
             ELSE IF cfg_store[collection_name].num_entities > 0
             THEN [collection |-> collection_name,
                   dimension |-> cfg_store[collection_name].dim]
             ELSE ProbeAlone(Tail(candidates),
                      [pair EXCEPT !.dimension = cfg_store[collection_name].dim])

SingleResolution ==
    LET found == FirstExisting(ALTERNATIVE_COLLECTION_NAMES)
        named == IF found # "" THEN found ELSE ABSTRACT_COLLECTION
    IN  ProbeAlone(ALTERNATIVE_COLLECTION_NAMES \o <<Qualify(named)>>,
                   [collection |-> named, dimension |-> EMBEDDING_DIMENSION])

\* C13 as stated: under every interleaving of the startup thread and the
\* handlers, the (name, dimension) pair a handler reads has the schema
\* dimension of the collection it names, and once the thread and the handlers
\* are through, the pair is the one a single resolution produces.
C13_Claim ==
    /\ \A h \in Handlers : h_saw[h] # NoPair => Consistent(h_saw[h])
    /\ (v_pc = "done" /\ \A h \in Handlers : h_pc[h] \in {"search", "failed"})
         => [collection |-> config_collection, dimension |-> config_dimension]
              = SingleResolution

-----------------------------------------------------------------------------
(* Properties of the references of build_context                            *)

\* C14 as stated: in every RAGContext build_context returns, the references
\* are numbered 1..k in increasing order and no two of them have the same
\* (title, page).
C14_Claim ==
    ctx_pc \in {"built", "generated"} =>
        LET references == rag_context.references
        IN  /\ \A i \in DOMAIN references : references[i].number = i
            /\ \A i, j \in DOMAIN references :
                 i # j => <<references[i].title, references[i].page>>
                            # <<references[j].title, references[j].page>>

-----------------------------------------------------------------------------
(* Properties of embedding generation and of the search                     *)

\* C15 as stated: embedding generation never hands back an all-zero vector;
\* when the provider fails the request has no vector and ends with the
\* provider's error.
C15_Claim ==
    /\ query_vec # <<>> => query_vec # Zeros(Len(query_vec))
    /\ s_pc = "embedded" => query_vec # <<>>
    /\ (s_pc = "searched" /\ query_vec = <<>>) => s_out = Raised(EmbeddingError)

\* the step is a search of the resolved collection, which has no entities
SearchOfEmptyCollection ==
    /\ s_pc \in {"embedded", "resolved"}
    /\ s_pc' = "searched"
    /\ _collection # ""
    /\ store[_collection].num_entities = 0

\* C16 as stated: a search of a resolved collection that has no entities when
\* the search runs ends with the empty-collection error and sends no
\* similarity query to the store.
C16_Claim ==
    [][ SearchOfEmptyCollection =>
          /\ s_out' = Raised(EmptyError)
          /\ queries' = queries ]_vars

-----------------------------------------------------------------------------
(* Properties of the run around its retrievals                              *)

\* a retrieval of this run failed: its context is the text of the except clause
FailedRetrieval ==
    \E i \in DOMAIN collected_contexts :
        /\ collected_contexts[i].context # <<>>
        /\ collected_contexts[i].context[1] = CouldNotRetrieve

\* C17 as stated: once the embedding or the search of a tool invocation has
\* failed, the run has ended with an error response and no further completion
\* call is made.
C17_Claim ==
    /\ [](FailedRetrieval => (Returned /\ result.error))
    /\ [][FailedRetrieval => calls' = calls]_vars

-----------------------------------------------------------------------------
(* Properties of the API keys                                               *)

\* the keys the environment configures
ConfiguredKeys == {Strip(API_KEYS[i]) : i \in DOMAIN API_KEYS} \ {""}

\* the request carries a Bearer credential that is a configured key
CarriesConfiguredKey ==
    /\ a_request.authorization.scheme \in {"Bearer", "bearer"}
    /\ a_request.authorization.credentials \in ConfiguredKeys

\* the last request has been answered
Answered == a_pc = "idle" /\ a_nreq > 0

-----------------------------------------------------------------------------
(* Properties of the messages and contexts of a turn                        *)

\* the invocation holds a question
HasQuestion(tool_call) ==
    tool_call.arguments.valid /\ tool_call.arguments.question # ""

\* the invocation is one of get_relevant_information and holds a question
Served(tool_call) == tool_call.name = ToolName /\ HasQuestion(tool_call)

\* the invocations of a list before the first one of get_relevant_information
\* whose arguments do not parse
RECURSIVE Reached(_)
Reached(tool_calls) ==
    IF tool_calls = <<>> THEN <<>>
    ELSE IF Head(tool_calls).name = ToolName /\ ~Head(tool_calls).arguments.valid
    THEN <<>>
    ELSE <<Head(tool_calls)>> \o Reached(Tail(tool_calls))

\* the invocations of completion call i that the loop has taken up so far
Processed(i) ==
    IF i = Len(calls) /\ pc = "tools"
    THEN SubSeq(calls[i].tool_calls, 1, Len(calls[i].tool_calls) - Len(pending))
    ELSE Reached(calls[i].tool_calls)

\* the messages appended between completion call i and the next one
TurnMessages(i) ==
    LET after == IF i < Len(calls) THEN calls[i + 1].messages ELSE messages
    IN  SubSeq(after, Len(calls[i].messages) + 1, Len(after))

\* expected[i] being the invocations of call i that are to be answered: the
\* collected contexts are theirs, in order, and each turn with invocations
\* appended its assistant message and then one tool message per expected
\* invocation, keyed by its id and holding the text of its collected context
OnePerInvocation(expected) ==
    LET all == Flatten(expected)
    IN  /\ Len(collected_contexts) = Len(all)
        /\ \A k \in DOMAIN all :
             collected_contexts[k].question = all[k].arguments.question
        /\ \A i \in DOMAIN calls :
             calls[i].tool_calls # <<>> =>
               LET appended == TurnMessages(i)
                   before == Len(Flatten(SubSeq(expected, 1, i - 1)))
               IN  /\ Len(appended) = 1 + Len(expected[i])
                   /\ appended[1].role = "assistant"
                   /\ appended[1].tool_calls = calls[i].tool_calls
                   /\ \A k \in DOMAIN expected[i] :
                        /\ appended[k + 1].role = "tool"
                        /\ appended[k + 1].tool_call_id = expected[i][k].id
                        /\ appended[k + 1].content =
                             collected_contexts[before + k].context

\* C19 as stated: once the invocations of a turn have been gone through, the
\* tool messages and the collected contexts appended for it are one per
\* invocation that has a question, in the order of the invocations, between the
\* assistant message of the turn and the next completion call.
C19_Original ==
    pc # "tools" =>
        OnePerInvocation([i \in DOMAIN calls |->
                             SelectSeq(calls[i].tool_calls, HasQuestion)])

\* C19, amended: the tool messages and the collected contexts appended for a
\* turn are one per invocation of get_relevant_information that holds a
\* question and that the loop has taken up, in the order of the invocations,
\* each message keyed by the id of its invocation and holding the text of its
\* collected context, after the assistant message of the turn and before the
\* next completion call; the loop takes up no invocation from the first one
\* whose arguments do not parse.
C19_OnePerServedInvocation ==
    OnePerInvocation([i \in DOMAIN calls |-> SelectSeq(Processed(i), Served)])

\* C19, witness: the second completion call was made after a turn of three
\* invocations, the first and the third with a question and the second
\* without, and two contexts were collected.
C19_Witness ==
    /\ Len(calls) = 2
    /\ Len(calls[1].tool_calls) = 3
    /\ Served(calls[1].tool_calls[1])
    /\ calls[1].tool_calls[2].name = ToolName
    /\ ~HasQuestion(calls[1].tool_calls[2])
    /\ calls[1].tool_calls[2].arguments.valid
    /\ Served(calls[1].tool_calls[3])
    /\ Len(collected_contexts) = 2
    /\ Len(TurnMessages(1)) = 3
    /\ TurnMessages(1)[3].tool_call_id = calls[1].tool_calls[3].id

-----------------------------------------------------------------------------
(* Properties of the seeding of the message list                            *)

\* the messages the chat held before the question was appended to it
StoredBefore == SubSeq(chat, 1, Len(chat) - 1)

\* C20 as stated: in tool mode the message list before the first completion
\* call is the system prompt, then the last min(5, n) of the n messages stored
\* before the question, as assistant or user messages in their order, then the
\* question, once, as the last element.
C20_Claim ==
    (impl = "tools" /\ pc = "awaiting" /\ calls = <<>>) =>
        LET history == LastN(StoredBefore, HistoryWindow)
        IN  messages =
              <<Msg("system", <<SystemPrompt>>, <<>>, 0)>>
              \o [i \in DOMAIN history |->
                     Msg(IF history[i].is_bot THEN "assistant" ELSE "user",
                         history[i].content, <<>>, 0)]
              \o <<Msg("user", <<Question>>, <<>>, 0)>>

-----------------------------------------------------------------------------
(* Properties of the order of the extracted references                      *)

\* the (title, page) pairs of a list of documents, each at its first occurrence
RECURSIVE DistinctPairs(_, _)
DistinctPairs(documents, seen) ==
    IF documents = <<>> THEN <<>>
    ELSE LET pair == <<Head(documents).title, PyStr(Head(documents).page)>>
         IN  IF pair \in seen THEN DistinctPairs(Tail(documents), seen)
             ELSE <<pair>> \o DistinctPairs(Tail(documents), seen \cup {pair})

\* C21 as stated: the extracted references are the first min(8, m) of the m
\* distinct (title, page) pairs of the documents, in the order of the
\* collected contexts and of the documents in each; a document is left out
\* only for an earlier document with the same title and page, or for the cap.
C21_Claim ==
    cite_pc = "extracted" =>
        [i \in DOMAIN cite_out.references |->
            <<cite_out.references[i].title, cite_out.references[i].page>>]
          = FirstN(DistinctPairs(InputDocuments, {}), MaxReferences)

-----------------------------------------------------------------------------
(* Properties of the sections of the formatted answer                       *)

\* C22 as stated: when a reference was collected, the formatted answer holds
\* one Sources section, the generated one, and no References or Sources
\* section written by the model is left in it.
C22_Claim ==
    (cite_pc = "formatted" /\ Available # <<>>) =>
        /\ Cardinality({i \in DOMAIN cite_out.content :
                          cite_out.content[i] = GeneratedHeading}) = 1
        /\ \A i \in DOMAIN cite_out.content :
             cite_out.content[i] \notin {SourcesHeading, ReferencesHeading}

-----------------------------------------------------------------------------
(* Properties of the references of the traditional path                     *)

\* C23: build_context returns min(3, n) references for n documents, the i-th
\* numbered i and holding the title and the page of the i-th document, and the
\* references are those it returns for the first three documents alone.
C23_FirstThree ==
    ctx_pc \in {"built", "generated"} =>
        LET references == rag_context.references
        IN  /\ Len(references) = Min(Len(ctx_documents), ContextReferences)
            /\ \A i \in DOMAIN references :
                 /\ references[i].number = i
                 /\ references[i].page = PyStr(ctx_documents[i].page)
                 /\ references[i].title =
                      IF ctx_documents[i].title = NoKey THEN "Untitled document"
                      ELSE ctx_documents[i].title
            /\ references =
                 build_context(FirstN(ctx_documents, ContextReferences)).references

\* C23, witness: a context was built from four documents, the fourth unlike
\* each of the first three, and holds three references.
C23_Witness ==
    /\ ctx_pc = "built"
    /\ Len(ctx_documents) = 4
    /\ \A i \in 1..3 : ctx_documents[i] # ctx_documents[4]
    /\ ctx_documents[4].title # NoKey
    /\ Len(rag_context.references) = 3

-----------------------------------------------------------------------------
(* Properties of the attempts of the startup verification                   *)

\* the configured name is that of a collection that exists and holds entities
UsableCollection ==
    /\ has_collection(config_collection)
    /\ cfg_store[config_collection].num_entities > 0

\* C24 as stated: the startup resolution makes at most 5 attempts, and while
\* attempts remain it stops only once a usable collection is resolved: an
\* attempt that does not reach the store or resolves no usable collection is
\* followed by another one.
C24_Claim ==
    /\ v_attempt < max_attempts
    /\ (v_pc \in {"done", "gave_up"} /\ v_attempt < max_attempts - 1)
         => UsableCollection

-----------------------------------------------------------------------------
(* Properties of the text sent to the embedding provider                    *)

\* C25 as stated: whatever the text given, the text sent to the embedding
\* provider is not empty, has no white space at either end and holds no
\* newline character.
C25_Claim ==
    e_pc = "sent" =>
        /\ e_sent # <<>>
        /\ Head(e_sent) \notin SpaceCharacters
        /\ e_sent[Len(e_sent)] \notin SpaceCharacters
        /\ \A i \in DOMAIN e_sent : e_sent[i] # "\n"

-----------------------------------------------------------------------------
(* Properties of the mapping of exceptions to user-facing messages          *)

\* the four fixed messages of an implementation, by category
FixedMessage(i, category) ==
    IF i = "clean" THEN error_message({category} \ {"other"})
    ELSE user_message(IF category = "empty" THEN {"is empty"}
                      ELSE {category} \ {"other"})

\* C26 as stated: every exception that escapes question processing is
\* answered with one of the four fixed messages, and a failure of one
\* category is never answered with the message of another category.
C26_Claim ==
    err_pc = "answered" =>
        /\ \E category \in Categories : err_http.detail = FixedMessage(err_impl, category)
        /\ \A category \in Categories \ {err_failure, "other"} :
               err_http.detail # FixedMessage(err_impl, category)

-----------------------------------------------------------------------------
(* Properties of the message list sent with a completion call               *)

\* the positions of list `sent` after position a that hold a tool-role
\* message keyed by `id`
ToolMessagesFor(sent, a, id) ==
    {b \in DOMAIN sent : b > a /\ sent[b].role = "tool" /\ sent[b].tool_call_id = id}

\* every invocation id of an assistant message of `sent` has exactly one
\* tool-role message after it
AllInvocationsAnswered(sent) ==
    \A a \in DOMAIN sent :
        sent[a].role = "assistant" =>
            \A t \in DOMAIN sent[a].tool_calls :
                Cardinality(ToolMessagesFor(sent, a, sent[a].tool_calls[t].id)) = 1

\* C27 as stated: the message list of every completion call issued holds,
\* for every tool-call id of its assistant messages, exactly one tool-role
\* message keyed by that id later in the list.
C27_Claim ==
    \A k \in DOMAIN calls : AllInvocationsAnswered(calls[k].messages)

-----------------------------------------------------------------------------
(* Properties of interleaved runs against the SQLite repository             *)

InRows(message) == \E i \in DOMAIN rows : rows[i] = message

\* C28 as stated: when two runs of process_question for one chat have both
\* completed, the stored chat holds both user questions and both bot
\* answers, however the runs interleaved.
C28_Claim ==
    (\A r \in Runs : run_pc[r] = "done") =>
        \A r \in Runs : InRows(UserMessage(r)) /\ InRows(BotMessage(r))

-----------------------------------------------------------------------------
(* Properties of the chat after process_question                            *)

\* the run failed: a completion call or the parsing of arguments raised, or
\* the save did
RunFailed == result.error \/ http.status = 500

\* C29 as stated: when process_question has returned or raised for an
\* existing chat, the chat holds the messages it held before, then the user
\* question, then one bot message: the generated answer when the run
\* succeeded, the fixed apology when anything failed; and a failed run has
\* raised to its caller.
C29_Claim ==
    (impl = "tools" /\ pc = "done") =>
        /\ \E before \in StoredChats :
              /\ Len(chat) = Len(before) + 2
              /\ SubSeq(chat, 1, Len(before)) = before
              /\ chat[Len(before) + 1] = ChatMsg(<<Question>>, FALSE, <<>>)
              /\ chat[Len(before) + 2].is_bot
              /\ chat[Len(before) + 2].content =
                     IF RunFailed THEN <<Apology>> ELSE result.content
        /\ RunFailed => http.status = 500

-----------------------------------------------------------------------------
(* Properties of the references returned with the answer                    *)

\* C30: the references returned with a formatted answer are the references
\* rendered in its Sources section: as many, in the same order, each rendered
\* under its own number, which is its position. When no context was collected
\* or no reference could be extracted, the answer is returned as it was given,
\* with an empty list.
C30_ReturnedAsRendered ==
    cite_pc = "formatted" =>
        IF cite_contexts = <<>> \/ Available = <<>>
        THEN /\ cite_out.content = cite_answer
             /\ cite_out.references = <<>>
        ELSE LET lines      == RenderedLines(cite_out.content)
                 references == cite_out.references
             IN  /\ Len(references) = Len(lines)
                 /\ \A i \in DOMAIN references :
                        /\ references[i].number = i
                        /\ lines[i] = SourceLine(references[i].number, references[i])

\* C30, witness: three references were available, the answer cites [2] as its
\* highest number, and two references were returned with a Sources section
\* of two lines.
C30_Witness ==
    /\ cite_pc = "formatted"
    /\ Len(Available) = 3
    /\ CitedNumbers(cite_answer) = {1, 2}
    /\ Len(cite_out.references) = 2
    /\ Len(RenderedLines(cite_out.content)) = 2

====
